---------------------------- MODULE Spec2Model ----------------------------
(***************************************************************************)
(* Model of the apply-edits tool (tools/apply-edits): the literal and      *)
(* normalized matcher, the eleven edit operations, and the two batch       *)
(* orchestrators (transaction.rs apply_with_transaction and lib.rs         *)
(* apply_edits_batched) behind apply_edits_with_options.                   *)
(*                                                                         *)
(* Text is a sequence of one-character strings.  Positions are 1-based;    *)
(* 0 stands for Rust's None where a position is optional.                  *)
(***************************************************************************)
EXTENDS Integers, Sequences, FiniteSets, TLC

NL == "\n"
CR == "\r"
SP == " "
TAB == "\t"

(***************************************************************************)
(* Bounds of the model.                                                    *)
(***************************************************************************)
\* longest batch of the orchestration specification
MaxEdits == 3

(***************************************************************************)
(* Primitives of Rust's str used by the tool.                              *)
(***************************************************************************)
Last(s) == s[Len(s)]
Front(s) == SubSeq(s, 1, Len(s) - 1)

\* char::is_whitespace, restricted to the characters of the model
is_whitespace(c) == c \in {SP, TAB, NL, CR}

starts_with_at(content, search, pos) ==
    /\ pos + Len(search) - 1 <= Len(content)
    /\ SubSeq(content, pos, pos + Len(search) - 1) = search

\* str::find: the position of the first occurrence, 0 when there is none
find_literal(content, search) ==
    LET hits == {p \in 1..(Len(content) + 1) : starts_with_at(content, search, p)}
    IN IF hits = {} THEN 0 ELSE CHOOSE p \in hits : \A q \in hits : p <= q

contains(content, search) == find_literal(content, search) # 0

ends_with(content, c) == Len(content) > 0 /\ Last(content) = c

RECURSIVE count_from(_, _, _)
count_from(content, search, pos) ==
    IF pos > Len(content) + 1 THEN 0
    ELSE IF starts_with_at(content, search, pos)
         THEN 1 + count_from(content, search,
                             pos + (IF Len(search) = 0 THEN 1 ELSE Len(search)))
         ELSE count_from(content, search, pos + 1)

\* str::matches(search).count(): non-overlapping occurrences, left to right
count_occurrences(content, search) == count_from(content, search, 1)

splice_at(content, pos, old_len, new) ==
    SubSeq(content, 1, pos - 1) \o new \o SubSeq(content, pos + old_len, Len(content))

\* replace_first splicing at the last occurrence instead of the first
replace_last(content, search, replace) ==
    splice_at(content,
              CHOOSE p \in 1..Len(content) :
                  /\ starts_with_at(content, search, p)
                  /\ \A q \in (p + 1)..Len(content) : ~starts_with_at(content, search, q),
              Len(search), replace)

\* defined when the search string occurs (None otherwise)
replace_first(content, search, replace) ==
    splice_at(content, find_literal(content, search), Len(search), replace)

RECURSIVE replace_from(_, _, _, _)
replace_from(content, search, replace, pos) ==
    IF pos > Len(content) THEN <<>>
    ELSE IF starts_with_at(content, search, pos)
         THEN replace \o replace_from(content, search, replace, pos + Len(search))
         ELSE <<content[pos]>> \o replace_from(content, search, replace, pos + 1)

\* replace_all substituting the first occurrence alone
replace_all_once(content, search, replace) ==
    IF contains(content, search) THEN replace_first(content, search, replace)
    ELSE content

\* str::replace with a non-empty search string
replace_all(content, search, replace) == replace_from(content, search, replace, 1)

RECURSIVE split_nl(_)
split_nl(s) ==
    LET nls == {p \in 1..Len(s) : s[p] = NL}
    IN IF nls = {} THEN <<s>>
       ELSE LET p == CHOOSE q \in nls : \A r \in nls : q <= r
                seg == SubSeq(s, 1, p - 1)
                line == IF ends_with(seg, CR) THEN Front(seg) ELSE seg
            IN <<line>> \o split_nl(SubSeq(s, p + 1, Len(s)))

\* str::lines(): split at line feeds, a final line feed ends the last line
\* rather than starting an empty one, a carriage return before a line feed
\* belongs to the line ending
lines(s) ==
    LET parts == split_nl(s)
    IN IF Last(parts) = <<>> THEN Front(parts) ELSE parts

RECURSIVE join(_, _)
join(ls, sep) ==
    IF Len(ls) = 0 THEN <<>>
    ELSE IF Len(ls) = 1 THEN ls[1]
    ELSE ls[1] \o sep \o join(Tail(ls), sep)

RECURSIVE trim_start(_)
trim_start(s) ==
    IF Len(s) > 0 /\ is_whitespace(s[1]) THEN trim_start(Tail(s)) ELSE s

RECURSIVE trim_end(_)
trim_end(s) ==
    IF Len(s) > 0 /\ is_whitespace(Last(s)) THEN trim_end(Front(s)) ELSE s

trim(s) == trim_end(trim_start(s))

repeat_space(n) == [i \in 1..n |-> SP]


RECURSIVE flatten(_)
flatten(pieces) ==
    IF Len(pieces) = 0 THEN <<>> ELSE pieces[1] \o flatten(Tail(pieces))

\* number of leading whitespace characters: line.len() - line.trim_start().len()
leading_ws(line) == Len(line) - Len(trim_start(line))

(***************************************************************************)
(* matcher.rs                                                              *)
(***************************************************************************)
\* first line (1-indexed) containing the anchor, 0 when no line does
find_line_with_anchor(content, anchor) ==
    LET ls == lines(content)
        hits == {i \in 1..Len(ls) : contains(ls[i], anchor)}
    IN IF hits = {} THEN 0 ELSE CHOOSE i \in hits : \A j \in hits : i <= j

normalize_indentation(s) ==
    LET ls == lines(s)
    IN join([i \in 1..Len(ls) |-> trim(ls[i])], <<NL>>)

Exact(pos) == [kind |-> "Exact", pos |-> pos, line_number |-> 0]
NormalizedMatch(n) == [kind |-> "NormalizedMatch", pos |-> 0, line_number |-> n]
NotFound == [kind |-> "NotFound", pos |-> 0, line_number |-> 0]

find_with_normalization(content, search) ==
    IF contains(content, search) THEN Exact(find_literal(content, search))
    ELSE LET search_lines == lines(normalize_indentation(search))
             content_lines == lines(content)
             n == Len(search_lines)
             window_matches(start) ==
                 \A k \in 1..n : trim(content_lines[start + k - 1]) = search_lines[k]
             hits == {st \in 1..(Len(content_lines) - n + 1) : window_matches(st)}
         IN IF n = 0 \/ hits = {} THEN NotFound
            ELSE NormalizedMatch(CHOOSE st \in hits : \A o \in hits : st <= o)

extract_lines(content, start_line, line_count) ==
    LET ls == lines(content)
        skip == IF start_line = 0 THEN 0 ELSE start_line - 1
        last == IF skip + line_count > Len(ls) THEN Len(ls) ELSE skip + line_count
    IN join(SubSeq(ls, skip + 1, last), <<NL>>)

adjust_indentation(text, from_indent, to_indent) ==
    LET adjust(line) ==
            IF leading_ws(line) >= from_indent
            THEN repeat_space(to_indent + (leading_ws(line) - from_indent))
                   \o trim_start(line)
            ELSE line
        ls == lines(text)
    IN join([i \in 1..Len(ls) |-> adjust(ls[i])], <<NL>>)

first_line(s) == IF Len(lines(s)) = 0 THEN <<>> ELSE lines(s)[1]

no_replacement == [found |-> FALSE, content |-> <<>>, normalized |-> FALSE]

\* replace_with_normalization, the NormalizedMatch arm once the actual
\* search text has been extracted
replace_normalized_match(content, search, replace, actual_search) ==
    LET search_indent == leading_ws(first_line(search))
        actual_indent == leading_ws(first_line(actual_search))
        adjusted_replace ==
            IF actual_indent # search_indent
            THEN adjust_indentation(replace, search_indent, actual_indent)
            ELSE replace
    IN IF contains(content, actual_search)
       THEN [found |-> TRUE, normalized |-> TRUE,
             content |-> splice_at(content, find_literal(content, actual_search),
                                Len(actual_search), adjusted_replace)]
       ELSE no_replacement

replace_with_found(content, search, replace, found) ==
    CASE found.kind = "Exact" ->
            [found |-> TRUE, normalized |-> FALSE,
             content |-> splice_at(content, found.pos, Len(search), replace)]
      [] found.kind = "NormalizedMatch" ->
            replace_normalized_match(content, search, replace,
                extract_lines(content, found.line_number, Len(lines(search))))
      [] OTHER -> no_replacement

\* Option<(String, String)>: found, the new content, and whether the match
\* was the normalized one (the warning text)
replace_with_normalization(content, search, replace) ==
    replace_with_found(content, search, replace,
                       find_with_normalization(content, search))

\* the trailing-newline fix-up shared by the insert functions
keep_trailing_newline(content, result) ==
    IF ends_with(content, NL) /\ ~ends_with(result, NL)
    THEN result \o <<NL>> ELSE result

insert_after_line(content, anchor, new_content) ==
    LET ls == lines(content)
        n == Len(ls)
        i == find_line_with_anchor(content, anchor)
        piece(j) == ls[j]
            \o (IF j <= i \/ j < n THEN <<NL>> ELSE <<>>)
            \o (IF j = i THEN new_content \o <<NL>> ELSE <<>>)
    IN keep_trailing_newline(content, flatten([j \in 1..n |-> piece(j)]))

insert_before_line(content, anchor, new_content) ==
    LET ls == lines(content)
        n == Len(ls)
        i == find_line_with_anchor(content, anchor)
        piece(j) == (IF j = i THEN new_content \o <<NL>> ELSE <<>>)
            \o ls[j]
            \o (IF j < n THEN <<NL>> ELSE <<>>)
    IN keep_trailing_newline(content, flatten([j \in 1..n |-> piece(j)]))

\* defined for 1 <= line_num <= lines + 1 (None otherwise)
insert_at_line(content, line_num, new_content) ==
    LET ls == lines(content)
        n == Len(ls)
        piece(j) == (IF j = line_num THEN new_content \o <<NL>> ELSE <<>>)
            \o ls[j]
            \o (IF j < n THEN <<NL>> ELSE <<>>)
        body == flatten([j \in 1..n |-> piece(j)])
        result == IF line_num > n
                  THEN (IF Len(body) > 0 /\ ~ends_with(body, NL)
                        THEN body \o <<NL>> ELSE body) \o new_content
                  ELSE body
    IN keep_trailing_newline(content, result)

RECURSIVE collapse_blank_runs(_)
collapse_blank_runs(s) ==
    IF contains(s, <<NL, NL, NL>>)
    THEN collapse_blank_runs(replace_all(s, <<NL, NL, NL>>, <<NL, NL>>))
    ELSE s

\* defined for 1 <= start <= end <= lines (None otherwise)
delete_line_range(content, start, end) ==
    LET ls == lines(content)
        n == Len(ls)
        piece(j) == IF j < start \/ j > end
                    THEN ls[j] \o (IF j < n THEN <<NL>> ELSE <<>>)
                    ELSE <<>>
        result == collapse_blank_runs(flatten([j \in 1..n |-> piece(j)]))
    IN IF ends_with(content, NL) /\ Len(result) > 0 /\ ~ends_with(result, NL)
       THEN result \o <<NL>> ELSE result

delete_matching_lines(content, search) ==
    LET ls == lines(content)
        kept == SelectSeq(ls, LAMBDA l : ~contains(l, search))
        output == join(kept, <<NL>>)
    IN [content |-> IF ends_with(content, NL) /\ Len(output) > 0
                    THEN output \o <<NL>> ELSE output,
        deleted |-> Len(ls) - Len(kept)]

(***************************************************************************)
(* The working directory.  A file is missing, present with text content,   *)
(* or present but not readable as text (its bytes are not UTF-8).  "a" is  *)
(* a file of the working directory itself, reachable as "a", "./a" and     *)
(* "s/../a" (s is a subdirectory that always exists); "d/b" is a file of   *)
(* the subdirectory d, which may not exist yet; "d/.." names the working   *)
(* directory itself once d exists, and nothing before.  Reads, writes and  *)
(* removes do not fail for reasons other than the state modelled here.     *)
(***************************************************************************)
Files == {"a", "d/b"}
Paths == {"a", "./a", "s/../a", "d/b"}

\* the paths that lead to a directory, not to a file
DirPaths == {"d/.."}

file_of(path) == IF path = "d/b" THEN "d/b" ELSE "a"

Missing == [exists |-> FALSE, utf8 |-> FALSE, data |-> <<>>]
Binary == [exists |-> TRUE, utf8 |-> FALSE, data |-> <<>>]
Text(s) == [exists |-> TRUE, utf8 |-> TRUE, data |-> s]

None == [some |-> FALSE, val |-> <<>>]
Some(s) == [some |-> TRUE, val |-> s]

path_exists(fs, path) ==
    IF path \in DirPaths THEN fs.d_exists ELSE fs.files[file_of(path)].exists

\* Path::parent is lexical: the parent of "d/.." is "d"
parent_exists(fs, path) == path \notin ({"d/b"} \cup DirPaths) \/ fs.d_exists

\* std::fs::read_to_string(..).ok()
read_to_string_ok(fs, path) ==
    LET f == fs.files[file_of(path)]
    IN IF path \notin DirPaths /\ f.exists /\ f.utf8 THEN Some(f.data) ELSE None

\* std::fs::write cannot open a directory for writing
write_fails(path) == path \in DirPaths

\* std::fs::write on a path whose parent directory exists
fs_write(fs, path, content) ==
    IF write_fails(path) THEN fs
    ELSE [fs EXCEPT !.files[file_of(path)] = Text(content)]

\* std::fs::remove_file; it does not remove a directory
fs_remove_file(fs, path) ==
    IF path \in DirPaths THEN fs
    ELSE [fs EXCEPT !.files[file_of(path)] = Missing]

fs_create_dir_all(fs, path) ==
    IF path \in {"d/b"} \cup DirPaths THEN [fs EXCEPT !.d_exists = TRUE] ELSE fs

(***************************************************************************)
(* edits/mod.rs: the Edit variants.  One record shape for all variants;    *)
(* the fields a variant does not carry are empty or 0.                     *)
(***************************************************************************)
EditRec(type, path, search, replace, anchor, content, line, start_line, end_line) ==
    [type |-> type, path |-> path, search |-> search, replace |-> replace,
     anchor |-> anchor, content |-> content, line |-> line,
     start_line |-> start_line, end_line |-> end_line]

Edit_Replace(path, search, replace) ==
    EditRec("replace", path, search, replace, <<>>, <<>>, 0, 0, 0)
Edit_ReplaceAll(path, search, replace) ==
    EditRec("replace_all", path, search, replace, <<>>, <<>>, 0, 0, 0)
Edit_InsertAfter(path, anchor, content) ==
    EditRec("insert_after", path, <<>>, <<>>, anchor, content, 0, 0, 0)
Edit_InsertBefore(path, anchor, content) ==
    EditRec("insert_before", path, <<>>, <<>>, anchor, content, 0, 0, 0)
Edit_InsertAtLine(path, line, content) ==
    EditRec("insert_at_line", path, <<>>, <<>>, <<>>, content, line, 0, 0)
Edit_Create(path, content) ==
    EditRec("create", path, <<>>, <<>>, <<>>, content, 0, 0, 0)
Edit_DeleteFile(path) ==
    EditRec("delete_file", path, <<>>, <<>>, <<>>, <<>>, 0, 0, 0)
Edit_DeleteLines(path, start_line, end_line) ==
    EditRec("delete_lines", path, <<>>, <<>>, <<>>, <<>>, 0, start_line, end_line)
Edit_DeleteMatch(path, search) ==
    EditRec("delete_match", path, search, <<>>, <<>>, <<>>, 0, 0, 0)
Edit_Append(path, content) ==
    EditRec("append", path, <<>>, <<>>, <<>>, content, 0, 0, 0)
Edit_Prepend(path, content) ==
    EditRec("prepend", path, <<>>, <<>>, <<>>, content, 0, 0, 0)

\* EditResult<String> together with the file system the call leaves behind
Ok(fs, message, n) == [ok |-> TRUE, error |-> "", message |-> message, n |-> n, fs |-> fs]
Err(fs, kind) == [ok |-> FALSE, error |-> kind, message |-> "", n |-> 0, fs |-> fs]

\* the call does not return: a panic unwinds through it
Panic(fs) == [ok |-> FALSE, error |-> "panic", message |-> "", n |-> 0, fs |-> fs]

\* the preview length of the not-found errors
PreviewLimit == 200

\* a character of the model that takes two bytes in UTF-8
E2 == "E"

utf8_len(c) == IF c = E2 THEN 2 ELSE 1

\* str::len: the length in bytes, one per character and one more for each
\* two-byte character
len_bytes(s) == Len(s) + Cardinality({k \in 1..Len(s) : utf8_len(s[k]) = 2})

\* str::is_char_boundary for an index within the string
is_char_boundary(s, idx) ==
    \E k \in 0..Len(s) : len_bytes(SubSeq(s, 1, k)) = idx

\* matcher.rs truncate_preview: whether &s[..max_len - 3] is a valid slice
\* when the string is longer than max_len bytes; slicing inside a character
\* panics
truncate_preview_panics(s, max_len) ==
    len_bytes(s) > max_len /\ ~is_char_boundary(s, max_len - 3)

\* the SearchNotFound / AnchorNotFound error with its preview of the text
not_found(fs, kind, text) ==
    IF truncate_preview_panics(text, PreviewLimit) THEN Panic(fs) ELSE Err(fs, kind)

\* edits::read_file: Ok(content) or the error kind
read_file(fs, path) ==
    LET f == fs.files[file_of(path)]
    IN IF ~path_exists(fs, path)
       THEN [ok |-> FALSE, error |-> "file_not_found", content |-> <<>>]
       ELSE IF path \in DirPaths \/ ~f.utf8
       THEN [ok |-> FALSE, error |-> "read_error", content |-> <<>>]
       ELSE [ok |-> TRUE, error |-> "", content |-> f.data]

(***************************************************************************)
(* edits/replace.rs                                                        *)
(***************************************************************************)
replace_result(fs, path, nr, search) ==
    IF nr.found
    THEN Ok(fs_write(fs, path, nr.content), "Replaced with indentation adjustment", 1)
    ELSE not_found(fs, "search_not_found", search)

apply_replace(fs, path, search, replace) ==
    LET r == read_file(fs, path)
    IN IF ~r.ok THEN Err(fs, r.error)
       ELSE IF Len(search) = 0 THEN Err(fs, "invalid_edit")
       ELSE IF count_occurrences(r.content, search) > 0
            THEN Ok(fs_write(fs, path, replace_first(r.content, search, replace)),
                    "Replaced 1 occurrence", 1)
       ELSE replace_result(fs, path,
                           replace_with_normalization(r.content, search, replace),
                           search)

\* apply_replace_all falling back to the normalized match of apply_replace
\* when the search does not occur
apply_replace_all_or_normalized(fs, path, search, replace_with) ==
    IF read_file(fs, path).ok /\ Len(search) > 0
       /\ count_occurrences(read_file(fs, path).content, search) > 0
    THEN Ok(fs_write(fs, path, replace_all(read_file(fs, path).content, search,
                                           replace_with)),
            "Replaced occurrence(s)",
            count_occurrences(read_file(fs, path).content, search))
    ELSE apply_replace(fs, path, search, replace_with)

apply_replace_all(fs, path, search, replace_with) ==
    LET r == read_file(fs, path)
        content == r.content
        occurrences == count_occurrences(content, search)
    IN IF ~r.ok THEN Err(fs, r.error)
       ELSE IF Len(search) = 0 THEN Err(fs, "invalid_edit")
       ELSE IF occurrences = 0 THEN not_found(fs, "search_not_found", search)
       ELSE Ok(fs_write(fs, path, replace_all(content, search, replace_with)),
               "Replaced occurrence(s)", occurrences)

(***************************************************************************)
(* edits/insert.rs                                                         *)
(***************************************************************************)
apply_insert_after(fs, path, anchor, content) ==
    LET r == read_file(fs, path)
        file_content == r.content
    IN IF ~r.ok THEN Err(fs, r.error)
       ELSE IF Len(anchor) = 0 THEN Err(fs, "invalid_edit")
       ELSE IF find_line_with_anchor(file_content, anchor) # 0
            THEN Ok(fs_write(fs, path, insert_after_line(file_content, anchor, content)),
                    "Inserted after anchor at line",
                    find_line_with_anchor(file_content, anchor))
       ELSE not_found(fs, "anchor_not_found", anchor)

apply_insert_before(fs, path, anchor, content) ==
    LET r == read_file(fs, path)
        file_content == r.content
    IN IF ~r.ok THEN Err(fs, r.error)
       ELSE IF Len(anchor) = 0 THEN Err(fs, "invalid_edit")
       ELSE IF find_line_with_anchor(file_content, anchor) # 0
            THEN Ok(fs_write(fs, path, insert_before_line(file_content, anchor, content)),
                    "Inserted before anchor at line",
                    find_line_with_anchor(file_content, anchor))
       ELSE not_found(fs, "anchor_not_found", anchor)

apply_insert_at_line(fs, path, line, content) ==
    LET r == read_file(fs, path)
        file_content == r.content
        total_lines == Len(lines(file_content))
    IN IF ~r.ok THEN Err(fs, r.error)
       ELSE IF line = 0 THEN Err(fs, "invalid_edit")
       ELSE IF line > total_lines + 1 THEN Err(fs, "line_out_of_range")
       ELSE Ok(fs_write(fs, path, insert_at_line(file_content, line, content)),
               "Inserted at line", line)

(***************************************************************************)
(* edits/file_ops.rs                                                       *)
(***************************************************************************)
apply_create(fs, path, content) ==
    LET made == IF ~parent_exists(fs, path) THEN fs_create_dir_all(fs, path) ELSE fs
    IN IF write_fails(path) THEN Err(made, "write_error")
       ELSE Ok(fs_write(made, path, content), "Created file", Len(lines(content)))

\* apply_append putting a line feed in front of the content whatever the
\* file ends with
apply_append_always_break(fs, path, content) ==
    LET r == read_file(fs, path)
    IN IF ~r.ok THEN Err(fs, r.error)
       ELSE Ok(fs_write(fs, path, r.content \o <<NL>> \o content),
               "Appended line(s)", Len(lines(content)))

apply_append(fs, path, content) ==
    LET r == read_file(fs, path)
        file_content == r.content
        new_content == IF ends_with(file_content, NL) \/ Len(file_content) = 0
                       THEN file_content \o content
                       ELSE file_content \o <<NL>> \o content
    IN IF ~r.ok THEN Err(fs, r.error)
       ELSE Ok(fs_write(fs, path, new_content), "Appended line(s)", Len(lines(content)))

apply_prepend(fs, path, content) ==
    LET r == read_file(fs, path)
        file_content == r.content
        new_content == IF ends_with(content, NL)
                       THEN content \o file_content
                       ELSE content \o <<NL>> \o file_content
    IN IF ~r.ok THEN Err(fs, r.error)
       ELSE Ok(fs_write(fs, path, new_content), "Prepended line(s)", Len(lines(content)))

(***************************************************************************)
(* edits/delete.rs                                                         *)
(***************************************************************************)
\* apply_delete_file reporting a missing file as an error
apply_delete_file_strict(fs, path) ==
    IF ~path_exists(fs, path)
    THEN Err(fs, "file_not_found")
    ELSE Ok(fs_remove_file(fs, path), "Deleted file", 0)

apply_delete_file(fs, path) ==
    IF ~path_exists(fs, path)
    THEN Ok(fs, "File did not exist (already deleted)", 0)
    ELSE IF path \in DirPaths THEN Err(fs, "delete_error")
    ELSE Ok(fs_remove_file(fs, path), "Deleted file", 0)

apply_delete_lines(fs, path, start_line, end_line) ==
    LET r == read_file(fs, path)
        content == r.content
        total_lines == Len(lines(content))
    IN IF ~r.ok THEN Err(fs, r.error)
       ELSE IF start_line = 0 \/ end_line = 0 THEN Err(fs, "invalid_edit")
       ELSE IF start_line > end_line THEN Err(fs, "invalid_edit")
       ELSE IF end_line > total_lines THEN Err(fs, "invalid_line_range")
       ELSE Ok(fs_write(fs, path, delete_line_range(content, start_line, end_line)),
               "Deleted lines", end_line - start_line + 1)

apply_delete_match(fs, path, search) ==
    LET r == read_file(fs, path)
        content == r.content
        d == delete_matching_lines(content, search)
    IN IF ~r.ok THEN Err(fs, r.error)
       ELSE IF Len(search) = 0 THEN Err(fs, "invalid_edit")
       ELSE IF d.deleted = 0 THEN Ok(fs, "No matching lines found (nothing deleted)", 0)
       ELSE Ok(fs_write(fs, path, d.content), "Deleted matching lines", d.deleted)

(***************************************************************************)
(* edits/mod.rs: dispatch, and error.rs: the outcome of one edit           *)
(***************************************************************************)
apply_inner(fs, edit) ==
    CASE edit.type = "replace" ->
            apply_replace(fs, edit.path, edit.search, edit.replace)
      [] edit.type = "replace_all" ->
            apply_replace_all(fs, edit.path, edit.search, edit.replace)
      [] edit.type = "insert_after" ->
            apply_insert_after(fs, edit.path, edit.anchor, edit.content)
      [] edit.type = "insert_before" ->
            apply_insert_before(fs, edit.path, edit.anchor, edit.content)
      [] edit.type = "insert_at_line" ->
            apply_insert_at_line(fs, edit.path, edit.line, edit.content)
      [] edit.type = "create" -> apply_create(fs, edit.path, edit.content)
      [] edit.type = "delete_file" -> apply_delete_file(fs, edit.path)
      [] edit.type = "delete_lines" ->
            apply_delete_lines(fs, edit.path, edit.start_line, edit.end_line)
      [] edit.type = "delete_match" -> apply_delete_match(fs, edit.path, edit.search)
      [] edit.type = "append" -> apply_append(fs, edit.path, edit.content)
      [] edit.type = "prepend" -> apply_prepend(fs, edit.path, edit.content)

\* EditOutcome::Ok / EditOutcome::Error (status "ok" / "error")
ok_with_details(index, edit, message, n) ==
    [index |-> index, path |-> edit.path, edit_type |-> edit.type,
     status |-> "ok", error |-> "", message |-> message, n |-> n]

from_error(index, edit, kind) ==
    [index |-> index, path |-> edit.path, edit_type |-> edit.type,
     status |-> "error", error |-> kind, message |-> "", n |-> 0]

is_success(outcome) == outcome.status \in {"ok", "warning"}

\* no outcome: the panic of apply_inner unwinds through the caller
panicked(index, edit) ==
    [index |-> index, path |-> edit.path, edit_type |-> edit.type,
     status |-> "panicked", error |-> "", message |-> "", n |-> 0]

\* Edit::apply: the outcome and the file system after the call
apply_outcome(edit, index, r) ==
    [outcome |-> IF r.ok THEN ok_with_details(index, edit, r.message, r.n)
                 ELSE IF r.error = "panic" THEN panicked(index, edit)
                 ELSE from_error(index, edit, r.error),
     fs |-> r.fs]

apply(fs, edit, index) == apply_outcome(edit, index, apply_inner(fs, edit))

(***************************************************************************)
(* transaction.rs: EditTransaction                                         *)
(***************************************************************************)
\* the key of the backup map: workdir.join(rel_path) as a PathBuf.  PathBuf
\* equality and hashing go by components, which drop a "." inside the path
\* but keep "..".
path_buf(rel_path) == IF rel_path = "./a" THEN "a" ELSE rel_path

begin == [backups |-> <<>>, applied_files |-> <<>>]

backup_file(tx, fs, rel_path) ==
    LET full_path == path_buf(rel_path)
    IN IF full_path \in DOMAIN tx.backups THEN tx
       ELSE [backups |-> (full_path :> read_to_string_ok(fs, rel_path)) @@ tx.backups,
             applied_files |-> Append(tx.applied_files, full_path)]

\* EditTransaction::simulate_edit
simulate_edit(fs, edit, index) ==
    LET r == read_file(fs, edit.path)
        content == r.content
        total_lines == Len(lines(content))
    IN CASE edit.type \in {"replace", "replace_all"} ->
              IF ~r.ok THEN from_error(index, edit, r.error)
              ELSE IF count_occurrences(content, edit.search) > 0
                   THEN ok_with_details(index, edit, "Would replace occurrence(s) (dry-run)",
                                        count_occurrences(content, edit.search))
              ELSE IF find_with_normalization(content, edit.search).kind = "NormalizedMatch"
                   THEN ok_with_details(index, edit,
                            "Would replace with indentation adjustment (dry-run)",
                            find_with_normalization(content, edit.search).line_number)
              ELSE from_error(index, edit, "search_not_found")
         [] edit.type \in {"insert_after", "insert_before"} ->
              IF ~r.ok THEN from_error(index, edit, r.error)
              ELSE IF find_line_with_anchor(content, edit.anchor) # 0
                   THEN ok_with_details(index, edit, "Would insert content (dry-run)", 0)
              ELSE from_error(index, edit, "anchor_not_found")
         [] edit.type = "insert_at_line" ->
              IF ~r.ok THEN from_error(index, edit, r.error)
              ELSE IF edit.line > 0 /\ edit.line <= total_lines + 1
                   THEN ok_with_details(index, edit, "Would insert at line (dry-run)", edit.line)
              ELSE from_error(index, edit, "line_out_of_range")
         [] edit.type = "create" ->
              IF path_exists(fs, edit.path)
              THEN ok_with_details(index, edit, "Would overwrite existing file (dry-run)", 0)
              ELSE ok_with_details(index, edit, "Would create new file (dry-run)", 0)
         [] edit.type = "delete_file" ->
              IF path_exists(fs, edit.path)
              THEN ok_with_details(index, edit, "Would delete file (dry-run)", 0)
              ELSE from_error(index, edit, "file_not_found")
         [] edit.type = "delete_lines" ->
              IF ~r.ok THEN from_error(index, edit, r.error)
              ELSE IF edit.start_line > 0 /\ edit.end_line >= edit.start_line
                      /\ edit.end_line <= total_lines
                   THEN ok_with_details(index, edit, "Would delete lines (dry-run)", 0)
              ELSE from_error(index, edit, "invalid_line_range")
         [] edit.type = "delete_match" ->
              IF ~r.ok THEN from_error(index, edit, r.error)
              ELSE ok_with_details(index, edit, "Would delete matching line(s) (dry-run)",
                       Len(SelectSeq(lines(content), LAMBDA l : contains(l, edit.search))))
         [] edit.type \in {"append", "prepend"} ->
              IF ~r.ok THEN from_error(index, edit, r.error)
              ELSE ok_with_details(index, edit, "Would append/prepend content (dry-run)", 0)

\* apply_edit with the dry-run test forgotten
apply_edit_ignoring_dry_run(tx, fs, edit, index, dry) ==
    [tx |-> backup_file(tx, fs, edit.path)] @@ apply(fs, edit, index)

\* EditTransaction::apply_edit: the transaction, the outcome and the file
\* system after the call
apply_edit(tx, fs, edit, index, dry) ==
    IF dry
    THEN [tx |-> tx, outcome |-> simulate_edit(fs, edit, index), fs |-> fs]
    ELSE [tx |-> backup_file(tx, fs, edit.path)] @@ apply(fs, edit, index)

\* restoring one backup entry: write the snapshot back, or remove the file
\* when the entry is None and the file exists
restore_entry(fs, path, original_content) ==
    IF original_content.some THEN fs_write(fs, path, original_content.val)
    ELSE IF path_exists(fs, path) THEN fs_remove_file(fs, path)
    ELSE fs

RECURSIVE restore_in_order(_, _, _)
restore_in_order(fs, map, order) ==
    IF Len(order) = 0 THEN fs
    ELSE restore_in_order(restore_entry(fs, order[1], map[order[1]]), map, Tail(order))

RECURSIVE orders(_)
orders(keys) ==
    IF keys = {} THEN {<<>>}
    ELSE UNION {{<<k>> \o o : o \in orders(keys \ {k})} : k \in keys}

\* EditTransaction::rollback.  The backups are a HashMap: the iteration
\* order is whatever the hasher's seed makes it, so every order is possible.
rollback(fs, map) == {restore_in_order(fs, map, o) : o \in orders(DOMAIN map)}

(***************************************************************************)
(* error.rs: ApplyResult                                                   *)
(***************************************************************************)
new_result == [success |-> TRUE, applied |-> 0, failed |-> 0, edits |-> <<>>]

\* add_outcome pushing the outcome in the success arm only
add_outcome_success_only(res, outcome) ==
    IF is_success(outcome)
    THEN [res EXCEPT !.applied = @ + 1, !.edits = Append(@, outcome)]
    ELSE [res EXCEPT !.failed = @ + 1, !.success = FALSE]

\* add_outcome leaving the success flag alone
add_outcome_success_kept(res, outcome) ==
    IF is_success(outcome)
    THEN [res EXCEPT !.applied = @ + 1, !.edits = Append(@, outcome)]
    ELSE [res EXCEPT !.failed = @ + 1, !.edits = Append(@, outcome)]

add_outcome(res, outcome) ==
    IF is_success(outcome)
    THEN [res EXCEPT !.applied = @ + 1, !.edits = Append(@, outcome)]
    ELSE [res EXCEPT !.failed = @ + 1, !.success = FALSE, !.edits = Append(@, outcome)]

(***************************************************************************)
(* lib.rs                                                                  *)
(***************************************************************************)
should_use_batch_optimization(batch) ==
    /\ Len(batch) >= 2
    /\ \E i, j \in 1..Len(batch) : i < j /\ batch[i].path = batch[j].path

\* group_edits_by_file with every group's edits pushed in front, not behind
group_edits_by_file_newest_first(batch) ==
    [p \in {batch[i].path : i \in 1..Len(batch)} |->
        SelectSeq([i \in 1..Len(batch) |-> Len(batch) - i],
                  LAMBDA i : batch[i + 1].path = p)]

\* HashMap<String, Vec<(usize, &Edit)>>: for every path of the batch the
\* (0-based) indices of its edits, in input order
group_edits_by_file(batch) ==
    [p \in {batch[i].path : i \in 1..Len(batch)} |->
        SelectSeq([i \in 1..Len(batch) |-> i - 1], LAMBDA i : batch[i + 1].path = p)]

\* lib.rs simulate_edit, the dry-run of the batched path
lib_simulate_edit(fs, edit, index) ==
    LET r == read_file(fs, edit.path)
        content == r.content
    IN CASE edit.type \in {"replace", "replace_all"} ->
              IF ~r.ok THEN from_error(index, edit, r.error)
              ELSE IF count_occurrences(content, edit.search) > 0
                   THEN ok_with_details(index, edit, "Would replace occurrence(s) (dry-run)",
                                        count_occurrences(content, edit.search))
              ELSE IF find_with_normalization(content, edit.search).kind = "NormalizedMatch"
                   THEN ok_with_details(index, edit,
                            "Would replace with indent adjust (dry-run)",
                            find_with_normalization(content, edit.search).line_number)
              ELSE from_error(index, edit, "search_not_found")
         [] edit.type \in {"insert_after", "insert_before"} ->
              IF ~r.ok THEN from_error(index, edit, r.error)
              ELSE IF find_line_with_anchor(content, edit.anchor) # 0
                   THEN ok_with_details(index, edit, "Would insert content (dry-run)", 0)
              ELSE from_error(index, edit, "anchor_not_found")
         [] edit.type = "create" ->
              IF path_exists(fs, edit.path)
              THEN ok_with_details(index, edit, "Would overwrite file (dry-run)", 0)
              ELSE ok_with_details(index, edit, "Would create file (dry-run)", 0)
         [] edit.type = "delete_file" ->
              IF path_exists(fs, edit.path)
              THEN ok_with_details(index, edit, "Would delete file (dry-run)", 0)
              ELSE from_error(index, edit, "file_not_found")
         [] OTHER -> ok_with_details(index, edit, "Would apply (dry-run)", 0)

\* the outcomes that are Some, in slot order, added to the result
RECURSIVE collect(_, _, _)
collect(res, slots, i) ==
    IF i > Len(slots) THEN res
    ELSE collect(IF slots[i].some THEN add_outcome(res, slots[i].val) ELSE res,
                 slots, i + 1)

\* lib.rs, the restore loop of apply_edits_batched: one entry
lib_restore_entry(fs, backup_path, content) ==
    IF content.some THEN fs_write(fs, backup_path, content.val)
    ELSE IF path_exists(fs, backup_path) THEN fs_remove_file(fs, backup_path)
    ELSE fs

RECURSIVE lib_restore_in_order(_, _, _)
lib_restore_in_order(fs, map, order) ==
    IF Len(order) = 0 THEN fs
    ELSE lib_restore_in_order(lib_restore_entry(fs, order[1], map[order[1]]),
                              map, Tail(order))

\* the restore loop iterates a HashMap<String, _>: every order is possible
lib_restore_backups(fs, map) ==
    {lib_restore_in_order(fs, map, o) : o \in orders(DOMAIN map)}

(***************************************************************************)
(* The state of one run of apply_edits_with_options.                       *)
(***************************************************************************)
VARIABLES
    edits,        \* the input batch
    dry_run,      \* the --dry-run flag
    partial,      \* the --partial flag
    fs,           \* the working directory
    fs0,          \* the working directory when the run started
    pc,           \* "start", "plain" (apply_with_transaction),
                  \* "batched" (apply_edits_batched), "done" (returned),
                  \* "panicked" (the process died of a panic), "library"
    index,        \* plain: index of the next edit; batched: position in the group
    transaction,  \* plain: the EditTransaction
    backups,      \* batched: the backups map
    pending,      \* batched: groups the loop has not reached yet
    group,        \* batched: path of the group being processed ("" before the first)
    outcomes,     \* batched: the pre-allocated outcome slots
    result,       \* the ApplyResult being built, and returned at "done"
    trace,        \* input indices of the edits in the order they were evaluated
    rolled_back,  \* a rollback has happened
    call          \* the call of a library function outside the orchestrators
                  \* (indent.rs, autocorrect.rs, matcher.rs), None during a run

vars == <<edits, dry_run, partial, fs, fs0, pc, index, transaction, backups,
          pending, group, outcomes, result, trace, rolled_back, call>>

X == <<SP, "x", NL, "y", NL>>
Y == <<"y", NL>>
Z == <<"z">>
W == <<"w", NL>>

\* the edits of the orchestration batches
Pool ==
    { Edit_Append("a", Z), Edit_Append("./a", Z), Edit_Append("s/../a", Z),
      Edit_Create("d/b", W),
      Edit_DeleteFile("a"),
      Edit_Replace("a", <<"x">>, <<"w">>),
      Edit_DeleteLines("d/b", 1, 1) }

\* every edit variant on the file a, with the arguments that decide its
\* outcome on the text X (two lines, the first one indented): a search that
\* occurs, one that matches only after trimming, one that does not occur,
\* the empty one; line numbers 0, inside, one past the end, beyond
Variants ==
    {Edit_Replace("a", sr, <<"w">>) : sr \in {<<"x">>, <<SP, SP, "x">>, <<"q">>, <<>>}}
    \cup {Edit_ReplaceAll("a", sr, <<"w">>) : sr \in {<<"x">>, <<SP, SP, "x">>, <<"q">>, <<>>}}
    \cup {Edit_InsertAfter("a", an, Z) : an \in {<<"y">>, <<"q">>, <<>>}}
    \cup {Edit_InsertBefore("a", an, Z) : an \in {<<"y">>, <<"q">>, <<>>}}
    \cup {Edit_InsertAtLine("a", ln, Z) : ln \in {0, 1, 3, 4}}
    \cup {Edit_Create("a", W), Edit_DeleteFile("a"), Edit_Append("a", Z), Edit_Prepend("a", Z)}
    \cup {Edit_DeleteLines("a", r[1], r[2]) :
            r \in {<<0, 1>>, <<1, 0>>, <<1, 1>>, <<2, 1>>, <<1, 2>>, <<1, 3>>}}
    \cup {Edit_DeleteMatch("a", sr) : sr \in {<<"y">>, <<"q">>, <<>>}}

\* the batches of a run: every sequence of up to MaxEdits edits of the pool,
\* and every variant alone (plain path) and twice in a row (batched path)
Batches ==
    UNION {[1..n -> Pool] : n \in 1..MaxEdits}
    \cup {<<e>> : e \in Variants}
    \cup {<<e, e>> : e \in Variants}

\* the working directories a run can start from: a is missing, not text, or
\* text; d does not exist, or exists and holds b
InitialFs ==
    { [files |-> [f \in Files |-> IF f = "a" THEN fa ELSE fb.file], d_exists |-> fb.dir] :
        fa \in {Missing, Binary, Text(X)},
        fb \in {[dir |-> FALSE, file |-> Missing], [dir |-> TRUE, file |-> Text(Y)]} }

InitWith(batches, dirs) ==
    /\ edits \in batches
    /\ dry_run \in BOOLEAN
    /\ partial \in BOOLEAN
    /\ fs \in dirs
    /\ fs0 = fs
    /\ pc = "start"
    /\ index = 0
    /\ transaction = begin
    /\ backups = <<>>
    /\ pending = {}
    /\ group = ""
    /\ outcomes = <<>>
    /\ result = new_result
    /\ trace = <<>>
    /\ rolled_back = FALSE
    /\ call = None

Init == InitWith(Batches, InitialFs)

groups == group_edits_by_file(edits)

\* apply_edits_with_options: choose the orchestrator
Dispatch ==
    /\ pc = "start"
    /\ IF should_use_batch_optimization(edits)
       THEN /\ pc' = "batched"
            /\ pending' = DOMAIN groups
            /\ outcomes' = [i \in 1..Len(edits) |-> None]
       ELSE /\ pc' = "plain"
            /\ UNCHANGED <<pending, outcomes>>
    /\ UNCHANGED <<edits, dry_run, partial, fs, fs0, index, transaction, backups,
                   group, result, trace, rolled_back, call>>

\* fail_fast with the partial flag forgotten
fail_fast_ignoring_partial(outcome) == ~is_success(outcome) /\ ~dry_run

\* the atomic-mode test after each edit: fail fast and roll back
fail_fast(outcome) == ~is_success(outcome) /\ ~partial /\ ~dry_run

\* apply_with_transaction, the body of the loop once the edit has been
\* applied (r): the possible states after it
loop_body(res, i, r) ==
    IF r.outcome.status = "panicked"
    THEN {[tx |-> r.tx, fs |-> r.fs, result |-> res,
           index |-> i, returned |-> FALSE, panicked |-> TRUE]}
    ELSE IF fail_fast(r.outcome)
    THEN {[tx |-> r.tx, fs |-> f, result |-> add_outcome(res, r.outcome),
           index |-> i, returned |-> TRUE, panicked |-> FALSE] :
                f \in rollback(r.fs, r.tx.backups)}
    ELSE {[tx |-> r.tx, fs |-> r.fs, result |-> add_outcome(res, r.outcome),
           index |-> i + 1, returned |-> FALSE, panicked |-> FALSE]}

loop_step(tx, dir, res, i) ==
    loop_body(res, i, apply_edit(tx, dir, edits[i + 1], i, dry_run))

\* apply_with_transaction: one iteration of the loop over the edits
TxApplyEdit ==
    /\ pc = "plain"
    /\ index < Len(edits)
    /\ \E n \in loop_step(transaction, fs, result, index) :
          /\ transaction' = n.tx
          /\ result' = n.result
          /\ fs' = n.fs
          /\ index' = n.index
          /\ rolled_back' = n.returned
          /\ pc' = IF n.panicked THEN "panicked"
                   ELSE IF n.returned THEN "done" ELSE pc
    /\ trace' = Append(trace, index)
    /\ UNCHANGED <<edits, dry_run, partial, fs0, backups, pending, group, outcomes,
                   call>>

\* apply_with_transaction: the loop is over, commit and return
TxCommit ==
    /\ pc = "plain"
    /\ index = Len(edits)
    /\ pc' = "done"
    /\ UNCHANGED <<edits, dry_run, partial, fs, fs0, index, transaction, backups,
                   pending, group, outcomes, result, trace, rolled_back, call>>

group_finished == IF group = "" THEN TRUE ELSE index = Len(groups[group])

\* apply_edits_batched: the outer loop reaches the next group (the groups
\* are a HashMap: any group not yet visited can be next) and backs its file up
BatchEnterGroup ==
    /\ pc = "batched"
    /\ group_finished
    /\ \E path \in pending :
        /\ group' = path
        /\ pending' = pending \ {path}
        /\ backups' = IF ~dry_run /\ path \notin DOMAIN backups
                      THEN (path :> read_to_string_ok(fs, path)) @@ backups
                      ELSE backups
    /\ index' = 0
    /\ UNCHANGED <<edits, dry_run, partial, fs, fs0, pc, transaction, outcomes,
                   result, trace, rolled_back, call>>

\* apply_edits_batched: one iteration of the inner loop over the group's edits
BatchApplyEdit ==
    /\ pc = "batched"
    /\ ~group_finished
    /\ \E i \in {groups[group][index + 1]} :
       \E r \in {IF dry_run
                 THEN [outcome |-> lib_simulate_edit(fs, edits[i + 1], i), fs |-> fs]
                 ELSE apply(fs, edits[i + 1], i)} :
       \E slots \in {[outcomes EXCEPT ![i + 1] = Some(r.outcome)]} :
          /\ outcomes' = slots
          /\ trace' = Append(trace, i)
          /\ IF r.outcome.status = "panicked"
             THEN /\ fs' = r.fs
                  /\ pc' = "panicked"
                  /\ UNCHANGED <<index, result, rolled_back>>
             ELSE IF fail_fast(r.outcome)
             THEN /\ fs' \in lib_restore_backups(r.fs, backups)
                  /\ result' = collect(result, slots, 1)
                  /\ rolled_back' = TRUE
                  /\ pc' = "done"
                  /\ UNCHANGED index
             ELSE /\ fs' = r.fs
                  /\ index' = index + 1
                  /\ UNCHANGED <<pc, result, rolled_back>>
    /\ UNCHANGED <<edits, dry_run, partial, fs0, transaction, backups, pending, group,
                   call>>

\* apply_edits_batched: every group is done, collect the outcomes and return
BatchFinish ==
    /\ pc = "batched"
    /\ group_finished
    /\ pending = {}
    /\ result' = collect(result, outcomes, 1)
    /\ pc' = "done"
    /\ UNCHANGED <<edits, dry_run, partial, fs, fs0, index, transaction, backups,
                   pending, group, outcomes, trace, rolled_back, call>>

Next ==
    \/ Dispatch
    \/ TxApplyEdit
    \/ TxCommit
    \/ BatchEnterGroup
    \/ BatchApplyEdit
    \/ BatchFinish

Spec == Init /\ [][Next]_vars

(***************************************************************************)
(* apply_with_transaction as a whole: every (result, working directory)    *)
(* the plain path can return for the batch from the given loop state.      *)
(***************************************************************************)
RECURSIVE apply_with_transaction(_, _, _, _)
apply_with_transaction(tx, dir, res, i) ==
    IF i = Len(edits) THEN {[result |-> res, fs |-> dir]}
    ELSE UNION {IF n.returned \/ n.panicked THEN {[result |-> n.result, fs |-> n.fs]}
                ELSE apply_with_transaction(n.tx, n.fs, n.result, n.index) :
                    n \in loop_step(tx, dir, res, i)}

(***************************************************************************)
(* Vocabulary of the properties.                                           *)
(***************************************************************************)
atomic == ~partial /\ ~dry_run
returned == pc = "done"
batched_path == should_use_batch_optimization(edits)
input_indices == {i - 1 : i \in 1..Len(edits)}
increasing(seq) == \A i, j \in 1..Len(seq) : i < j => seq[i] < seq[j]
\* the snapshots of the run, whichever orchestrator holds them
snapshots == IF batched_path THEN backups ELSE transaction.backups
\* what a caller can observe of a run: the counters, the status and error
\* kind per edit index, and the files
observable(res, dir) ==
    [success |-> res.success, applied |-> res.applied, failed |-> res.failed,
     statuses |-> {<<res.edits[i].index, res.edits[i].status, res.edits[i].error>> :
                      i \in 1..Len(res.edits)},
     files |-> dir.files]

(***************************************************************************)
(* C1: in atomic mode, after a run in which an edit failed, every file has *)
(* the existence and content it had before the run.                        *)
(***************************************************************************)
C1_AtomicFailureRestoresFiles ==
    (returned /\ atomic /\ result.failed > 0) => fs.files = fs0.files

(***************************************************************************)
(* C2: a file is snapshotted at most once per transaction, however its     *)
(* path is spelled, and the stored snapshot is the file's content from     *)
(* before the transaction.                                                 *)
(***************************************************************************)
C2_OneSnapshotPerFile ==
    /\ \A k1, k2 \in DOMAIN snapshots : file_of(k1) = file_of(k2) => k1 = k2
    /\ \A k \in DOMAIN snapshots : snapshots[k] = read_to_string_ok(fs0, k)

(***************************************************************************)
(* C3: in atomic mode the run stops at the first failing edit: the         *)
(* outcomes returned are exactly those of the input edits 0..k, the        *)
(* failing one last, and no other edit was evaluated.                      *)
(***************************************************************************)
C3_AtomicStopsAtFirstFailure ==
    (returned /\ atomic /\ result.failed > 0) =>
        /\ \A i \in 1..Len(result.edits) :
              /\ result.edits[i].index = i - 1
              /\ is_success(result.edits[i]) <=> i < Len(result.edits)
        /\ trace = [i \in 1..Len(result.edits) |-> i - 1]

(***************************************************************************)
(* C4: in partial mode every edit of the batch is attempted whatever       *)
(* failed before it, no rollback happens, and the result counts every      *)
(* input edit: applied + failed = length(edits) = number of input edits.   *)
(***************************************************************************)
C4_PartialAttemptsEveryEdit ==
    partial =>
        /\ ~rolled_back
        /\ returned =>
              /\ Len(trace) = Len(edits)
              /\ {trace[i] : i \in 1..Len(trace)} = input_indices
              /\ result.applied + result.failed = Len(edits)
              /\ Len(result.edits) = Len(edits)

\* a partial run on disk where a failed edit was followed by an applied one
C4_Witness ==
    /\ returned /\ partial /\ ~dry_run
    /\ \E i, j \in 1..Len(result.edits) :
          i < j /\ ~is_success(result.edits[i]) /\ is_success(result.edits[j])
    /\ fs # fs0

(***************************************************************************)
(* C5: outside dry-run the edits are applied in input order: an edit is    *)
(* never applied before one that precedes it in the batch.                 *)
(***************************************************************************)
C5_AppliedInInputOrder == ~dry_run => increasing(trace)

(***************************************************************************)
(* C6: in dry-run mode, with either value of the partial flag, nothing on  *)
(* disk changes (no file or directory created, written or deleted) and no  *)
(* backup snapshot is taken.                                               *)
(***************************************************************************)
C6_DryRunTouchesNothing ==
    dry_run =>
        /\ fs = fs0
        /\ DOMAIN backups = {}
        /\ DOMAIN transaction.backups = {}
        /\ ~rolled_back

\* a finished dry run that reported a create of a file that does not exist
C6_Witness ==
    /\ returned /\ dry_run
    /\ \E i \in 1..Len(result.edits) :
          /\ result.edits[i].edit_type = "create"
          /\ is_success(result.edits[i])
          /\ ~path_exists(fs0, result.edits[i].path)

(***************************************************************************)
(* C7: dry-run predicts the real outcome: the dry-run outcome of an edit   *)
(* is a success exactly when applying that edit to the same working        *)
(* directory is a success.                                                 *)
(***************************************************************************)
C7_DryRunPredictsApply ==
    (returned /\ dry_run) =>
        \A i \in 1..Len(result.edits) :
            is_success(result.edits[i])
                <=> is_success(apply(fs, edits[result.edits[i].index + 1],
                                     result.edits[i].index).outcome)

(***************************************************************************)
(* C8: one outcome per attempted edit, returned in input order; in partial *)
(* mode and in dry-run mode the list is as long as the input and position  *)
(* i carries index i; only an atomic failure outside dry-run shortens it.  *)
(***************************************************************************)
C8_OneOutcomePerEditInOrder ==
    returned =>
        /\ Len(result.edits) = Len(trace)
        /\ {result.edits[i].index : i \in 1..Len(result.edits)}
              = {trace[i] : i \in 1..Len(trace)}
        /\ \A i, j \in 1..Len(result.edits) :
              i < j => result.edits[i].index < result.edits[j].index
        /\ (partial \/ dry_run) =>
              /\ Len(result.edits) = Len(edits)
              /\ \A i \in 1..Len(result.edits) : result.edits[i].index = i - 1
        /\ Len(result.edits) < Len(edits) => (atomic /\ result.failed > 0)

\* a batched partial run that evaluated the edits out of input order, with
\* a failure among them, and returned
C8_Witness ==
    /\ returned /\ batched_path /\ partial /\ ~dry_run
    /\ ~increasing(trace)
    /\ result.failed > 0
    /\ Len(edits) = MaxEdits

(***************************************************************************)
(* C9: a rollback removes only files this transaction created: a file      *)
(* that existed before the run (readable as text or not) still exists      *)
(* after a rollback.                                                       *)
(***************************************************************************)
C9_RollbackKeepsExistingFiles ==
    rolled_back => \A f \in Files : fs0.files[f].exists => fs.files[f].exists

(***************************************************************************)
(* C10: batching does not change semantics: whatever the batched path      *)
(* returns (counters, status and error kind per edit index, files on disk) *)
(* the plain transaction path can return for the same batch, flags and     *)
(* starting working directory.                                             *)
(***************************************************************************)
C10_BatchedEqualsPlain ==
    (returned /\ batched_path) =>
        observable(result, fs) \in
            {observable(run.result, run.fs) :
                run \in apply_with_transaction(begin, fs0, new_result, 0)}

(***************************************************************************)
(* C11: on the batched path two edits with the same path are applied in    *)
(* their input order, and nothing is applied to another path between       *)
(* them, so the later one meets the content the earlier one left.          *)
(***************************************************************************)
C11_SamePathKeepsInputOrder ==
    (batched_path /\ ~dry_run) =>
        \A p, q \in 1..Len(trace) :
            (p < q /\ edits[trace[p] + 1].path = edits[trace[q] + 1].path) =>
                /\ trace[p] < trace[q]
                /\ \A m \in p..q : edits[trace[m] + 1].path = edits[trace[p] + 1].path

\* a batched run on disk, on two paths, whose groups were visited out of
\* input order and in which two edits of one path were both applied
C11_Witness ==
    /\ returned /\ batched_path /\ ~dry_run
    /\ ~increasing(trace)
    /\ \E i, j \in 1..Len(result.edits) :
          /\ i < j
          /\ result.edits[i].path = result.edits[j].path
          /\ is_success(result.edits[i]) /\ is_success(result.edits[j])
    /\ fs # fs0

(***************************************************************************)
(* Single operations.  The specifications below run the same program on    *)
(* batches of one edit (plain path) or the same edit twice (batched path)  *)
(* against a text file a drawn from a family of contents.                  *)
(***************************************************************************)
\* the working directories in which a holds one of the contents
TextFs(contents) ==
    { [files |-> [f \in Files |-> IF f = "a" THEN Text(c) ELSE Missing],
       d_exists |-> FALSE] : c \in contents }

OnceOrTwice(ops) == {<<e>> : e \in ops} \cup {<<e, e>> : e \in ops}

\* vocabulary: a run of one edit on disk, the file before and after it
single_real == returned /\ Len(edits) = 1 /\ ~dry_run
the_edit == edits[1]
the_outcome == result.edits[1]
before == fs0.files["a"].data
after == fs.files["a"].data
occurrences_of(search, content) ==
    {p \in 1..Len(content) : starts_with_at(content, search, p)}
\* the lines of the search, trimmed, equal the trimmed lines st.. of the content
window_at(content, search, st) ==
    /\ st + Len(lines(search)) - 1 <= Len(lines(content))
    /\ \A k \in 1..Len(lines(search)) :
          trim(lines(content)[st + k - 1]) = trim(lines(search)[k])
windows_of(search, content) ==
    IF Len(lines(search)) = 0 THEN {}
    ELSE {st \in 1..Len(lines(content)) : window_at(content, search, st)}

(***************************************************************************)
(* Replace and ReplaceAll on files of up to MaxLines lines.                *)
(***************************************************************************)
\* most lines of a generated file
MaxLines == 2

LinePool == { <<"x">>, <<SP, "x">>, <<"y", SP, "x">>, <<"y">>, <<>> }

\* the text of the given lines with the given line ending, the last line
\* ended or not
render(ls, eol, final) ==
    join(ls, eol) \o (IF final /\ Len(ls) > 0 THEN eol ELSE <<>>)

LineContents ==
    { render(ls, eol, final) :
        ls \in UNION {[1..k -> LinePool] : k \in 0..MaxLines},
        eol \in {<<NL>>, <<CR, NL>>},
        final \in BOOLEAN }

\* searches: one that occurs, one that matches only after trimming, one of
\* two lines, one that does not occur, the empty one
Searches == { <<"x">>, <<SP, SP, "x">>, <<SP, "x", NL, "y">>, <<"q">>, <<>> }

\* replacements: one line, two lines of different indentation, nothing
Replacements == { <<"w">>, <<SP, SP, "w", NL, "w">>, <<>> }

ReplaceOps ==
    {Edit_Replace("a", sr, rp) : sr \in Searches, rp \in Replacements}
    \cup {Edit_ReplaceAll("a", sr, rp) : sr \in Searches, rp \in Replacements}

ReplaceInit == InitWith(OnceOrTwice(ReplaceOps), TextFs(LineContents))

ReplaceSpec == ReplaceInit /\ [][Next]_vars

(***************************************************************************)
(* C12: Replace tries the exact match first: when the non-empty search     *)
(* occurs in the file, exactly its leftmost occurrence is replaced, the    *)
(* text before and after it is unchanged and the message does not mention  *)
(* an indentation adjustment; the normalized match is used only when there *)
(* is no exact occurrence; when neither matches the outcome is             *)
(* search_not_found and the file is unchanged.                             *)
(***************************************************************************)
C12_ReplaceExactThenNormalized ==
    (single_real /\ the_edit.type = "replace" /\ Len(the_edit.search) > 0) =>
        LET occ == occurrences_of(the_edit.search, before)
            first == CHOOSE p \in occ : \A q \in occ : p <= q
        IN /\ occ # {} =>
                /\ the_outcome.status = "ok"
                /\ the_outcome.message = "Replaced 1 occurrence"
                /\ after = SubSeq(before, 1, first - 1) \o the_edit.replace
                             \o SubSeq(before, first + Len(the_edit.search), Len(before))
           /\ the_outcome.message = "Replaced with indentation adjustment" => occ = {}
           /\ (occ = {} /\ windows_of(the_edit.search, before) = {}) =>
                /\ the_outcome.status = "error"
                /\ the_outcome.error = "search_not_found"
                /\ fs = fs0

\* a Replace on a file with two occurrences of the search, done
C12_Witness ==
    /\ single_real /\ the_edit.type = "replace"
    /\ Cardinality(occurrences_of(the_edit.search, before)) >= 2
    /\ Len(the_edit.search) > 0
    /\ the_outcome.status = "ok"
    /\ after # before

(***************************************************************************)
(* C13: when the search has no exact occurrence but its lines, trimmed,    *)
(* equal a window of the file's lines, trimmed, Replace succeeds and says  *)
(* it adjusted the indentation, and the file is the old one with that      *)
(* window replaced by the replacement re-indented: a replacement line      *)
(* indented at least as much as the search's first line is shifted by      *)
(* (indentation of the window's first line - indentation of the search's   *)
(* first line), a line indented less is written as given.                  *)
(***************************************************************************)
\* position of the first character of line k, and of the last one (its
\* line ending excluded)
line_begin(content, k) ==
    IF k = 1 THEN 1
    ELSE 1 + CHOOSE p \in 1..Len(content) :
                 /\ content[p] = NL
                 /\ Cardinality({q \in 1..p : content[q] = NL}) = k - 1
line_end(content, k) ==
    LET ends == {p \in 1..Len(content) :
                    /\ content[p] = NL
                    /\ Cardinality({q \in 1..p : content[q] = NL}) = k}
        nl == CHOOSE p \in ends : TRUE
    IN IF ends = {} THEN Len(content)
       ELSE IF nl > 1 /\ content[nl - 1] = CR THEN nl - 2 ELSE nl - 1

\* the replacement with every line indented at least from_indent shifted
\* from from_indent to to_indent
reindented(replace, from_indent, to_indent) ==
    LET ls == lines(replace)
    IN join([k \in 1..Len(ls) |->
                IF leading_ws(ls[k]) >= from_indent
                THEN [j \in 1..(leading_ws(ls[k]) + to_indent - from_indent) |-> SP]
                       \o trim_start(ls[k])
                ELSE ls[k]], <<NL>>)

C13_NormalizedReplaceKeepsFileIndent ==
    (/\ single_real /\ the_edit.type = "replace" /\ Len(the_edit.search) > 0
     /\ occurrences_of(the_edit.search, before) = {}
     /\ windows_of(the_edit.search, before) # {}) =>
        LET wins == windows_of(the_edit.search, before)
            st == CHOOSE w \in wins : \A o \in wins : w <= o
            n == Len(lines(the_edit.search))
            written == reindented(the_edit.replace,
                                  leading_ws(lines(the_edit.search)[1]),
                                  leading_ws(lines(before)[st]))
        IN /\ the_outcome.status = "ok"
           /\ the_outcome.message = "Replaced with indentation adjustment"
           /\ after = SubSeq(before, 1, line_begin(before, st) - 1) \o written
                        \o SubSeq(before, line_end(before, st + n - 1) + 1, Len(before))

C15_DeleteMatchNoMatchWarns ==
    (/\ single_real /\ the_edit.type = "delete_match" /\ Len(the_edit.search) > 0
     /\ read_file(fs0, the_edit.path).ok
     /\ \A k \in 1..Len(lines(read_file(fs0, the_edit.path).content)) :
           occurrences_of(the_edit.search,
                          lines(read_file(fs0, the_edit.path).content)[k]) = {}) =>
        /\ the_outcome.status = "warning"
        /\ result.applied = 1
        /\ result.failed = 0
        /\ fs = fs0

(***************************************************************************)
(* C16: outside dry-run, DeleteFile on a path that does not exist is a     *)
(* successful no-op: in a batch of such edits every outcome is a success   *)
(* saying the file was already deleted, the file system is unchanged and   *)
(* no rollback is triggered, atomic mode included.                         *)
(***************************************************************************)
C16_DeleteMissingFileIsNoOp ==
    (/\ returned /\ ~dry_run
     /\ \A i \in 1..Len(edits) :
           edits[i].type = "delete_file" /\ ~path_exists(fs0, edits[i].path)) =>
        /\ Len(result.edits) = Len(edits)
        /\ \A i \in 1..Len(result.edits) :
              /\ result.edits[i].status = "ok"
              /\ result.edits[i].message = "File did not exist (already deleted)"
        /\ result.success
        /\ fs = fs0
        /\ ~rolled_back

\* an atomic run on disk of two or more DeleteFile edits on a missing file
C16_Witness ==
    /\ returned /\ atomic /\ Len(edits) >= 2
    /\ \A i \in 1..Len(edits) :
          edits[i].type = "delete_file" /\ ~path_exists(fs0, edits[i].path)
    /\ result.applied = Len(edits)

(***************************************************************************)
(* C17: a line number of 0 always fails with invalid_edit: the outcome of  *)
(* an InsertAtLine with line 0, or of a DeleteLines with start_line 0 or   *)
(* end_line 0, is the error invalid_edit in every mode (real and dry-run,  *)
(* plain and batched path) and for every state of the file.                *)
(***************************************************************************)
C17_LineZeroIsInvalidEdit ==
    returned =>
        \A i \in 1..Len(result.edits) :
            LET e == edits[result.edits[i].index + 1]
            IN (\/ e.type = "insert_at_line" /\ e.line = 0
                \/ e.type = "delete_lines" /\ (e.start_line = 0 \/ e.end_line = 0)) =>
                   /\ result.edits[i].status = "error"
                   /\ result.edits[i].error = "invalid_edit"

(***************************************************************************)
(* Line operations, Append and Prepend on every text of up to MaxLen       *)
(* characters over a letter and the line feed.                             *)
(***************************************************************************)
\* longest generated file, in characters
MaxLen == 3

\* every text of at most n characters over the alphabet
texts(alphabet, n) ==
    UNION {[1..k -> alphabet] : k \in 0..n}

ShortContents == texts({"x", NL}, MaxLen)

\* new content for Append and Prepend: with and without a line feed in front
\* and behind
Additions == texts({"z", NL}, 2) \ {<<>>}

LineOps ==
    {Edit_InsertAtLine("a", ln, Z) : ln \in 0..(MaxLen + 2)}
    \cup {Edit_DeleteLines("a", st, en) : st \in 0..(MaxLen + 1), en \in 0..(MaxLen + 1)}
    \cup {Edit_Append("a", ad) : ad \in Additions}
    \cup {Edit_Prepend("a", ad) : ad \in Additions}

LineInit == InitWith(OnceOrTwice(LineOps), TextFs(ShortContents))

LineSpec == LineInit /\ [][Next]_vars

(***************************************************************************)
(* C18: on an existing file of N lines InsertAtLine succeeds exactly when  *)
(* 1 <= line <= N+1, and then the content is the new line `line` with the  *)
(* former lines line..N after it (after the last line when line = N+1);    *)
(* DeleteLines succeeds exactly when 1 <= start <= end <= N; a rejected    *)
(* edit leaves the file unchanged, with line_out_of_range for InsertAtLine *)
(* beyond N+1 and invalid_line_range for DeleteLines with end > N.         *)
(***************************************************************************)
C18_LineBounds ==
    LET old == lines(before)
        N == Len(old)
        e == the_edit
    IN /\ (single_real /\ e.type = "insert_at_line") =>
              /\ the_outcome.status = "ok" <=> (1 <= e.line /\ e.line <= N + 1)
              /\ the_outcome.status = "ok" =>
                    lines(after) = SubSeq(old, 1, e.line - 1) \o lines(e.content)
                                     \o SubSeq(old, e.line, N)
              /\ the_outcome.status # "ok" => fs = fs0
              /\ e.line > N + 1 => the_outcome.error = "line_out_of_range"
       /\ (single_real /\ e.type = "delete_lines") =>
              /\ the_outcome.status = "ok" <=>
                    (1 <= e.start_line /\ e.start_line <= e.end_line /\ e.end_line <= N)
              /\ the_outcome.status # "ok" => fs = fs0
              /\ e.end_line > N => the_outcome.error = "invalid_line_range"

\* the text without its final line feed, if it has one
without_final_break(t) == IF ends_with(t, NL) THEN Front(t) ELSE t

\* the text without its leading line feed, if it has one
without_leading_break(t) == IF Len(t) > 0 /\ t[1] = NL THEN Tail(t) ELSE t

(***************************************************************************)
(* C19: Append and Prepend leave exactly one line break between the        *)
(* existing content and the new content, whether or not the existing       *)
(* content ends or starts with a line break and whether or not the new     *)
(* content starts or ends with one: never a missing, never a doubled       *)
(* separator.                                                              *)
(***************************************************************************)
C19_ExactlyOneBreakBetween ==
    (single_real /\ the_outcome.status = "ok" /\ before # <<>>) =>
        /\ the_edit.type = "append" =>
              after = without_final_break(before) \o <<NL>>
                        \o without_leading_break(the_edit.content)
        /\ the_edit.type = "prepend" =>
              after = without_final_break(the_edit.content) \o <<NL>>
                        \o without_leading_break(before)

(***************************************************************************)
(* C19, as the code has it: Append puts one line break between the two     *)
(* exactly when the existing content is not empty and does not end with    *)
(* one, Prepend exactly when the new content does not end with one; the    *)
(* start of the content that comes second is not looked at, and nothing    *)
(* else is added or removed.                                               *)
(***************************************************************************)
C19_BreakAddedWhenFirstPartLacksIt ==
    (single_real /\ the_outcome.status = "ok") =>
        /\ the_edit.type = "append" =>
              after = IF before = <<>> \/ ends_with(before, NL)
                      THEN before \o the_edit.content
                      ELSE before \o <<NL>> \o the_edit.content
        /\ the_edit.type = "prepend" =>
              after = IF ends_with(the_edit.content, NL)
                      THEN the_edit.content \o before
                      ELSE the_edit.content \o <<NL>> \o before

C19_Witness ==
    /\ single_real
    /\ the_edit.type = "append"
    /\ the_outcome.status = "ok"
    /\ before # <<>>
    /\ ends_with(before, NL)
    /\ the_edit.content[1] = NL
    /\ after = before \o the_edit.content

(***************************************************************************)
(* ReplaceAll on every text of up to MaxText characters over two letters.  *)
(***************************************************************************)
\* longest generated file of the substitution specification, in characters
MaxText == 4

TwoLetterContents == texts({"a", "b"}, MaxText)

\* non-empty search strings; replacements: empty, sharing no character with
\* any search string, sharing one
SubstOps ==
    {Edit_ReplaceAll("a", se, re) :
        se \in texts({"a", "b"}, 2) \ {<<>>}, re \in {<<>>, <<"c">>, <<"b">>}}

SubstInit == InitWith(OnceOrTwice(SubstOps), TextFs(TwoLetterContents))

SubstSpec == SubstInit /\ [][Next]_vars

\* the two strings have no character in common
disjoint(s, r) == \A i \in 1..Len(s), j \in 1..Len(r) : s[i] # r[j]

(***************************************************************************)
(* C20: for every content C, non-empty search S with count(C, S) > 0 and   *)
(* replacement R sharing no character with S, the empty R included, the    *)
(* result of replacing all occurrences has count(result, S) = 0.           *)
(***************************************************************************)
C20_NoOccurrenceLeft ==
    (/\ single_real
     /\ the_edit.type = "replace_all"
     /\ the_edit.search # <<>>
     /\ count_occurrences(before, the_edit.search) > 0
     /\ disjoint(the_edit.search, the_edit.replace)) =>
        /\ the_outcome.status = "ok"
        /\ after = replace_all(before, the_edit.search, the_edit.replace)
        /\ count_occurrences(after, the_edit.search) = 0

(***************************************************************************)
(* C20, for a replacement that is not empty: with a non-empty R sharing no *)
(* character with S, no occurrence of S is left.  An empty R joins the     *)
(* text on both sides of a removed occurrence, which can spell S again.    *)
(***************************************************************************)
C20_NoOccurrenceLeftNonEmpty ==
    (/\ single_real
     /\ the_edit.type = "replace_all"
     /\ the_edit.search # <<>>
     /\ count_occurrences(before, the_edit.search) > 0
     /\ the_edit.replace # <<>>
     /\ disjoint(the_edit.search, the_edit.replace)) =>
        /\ the_outcome.status = "ok"
        /\ after = replace_all(before, the_edit.search, the_edit.replace)
        /\ count_occurrences(after, the_edit.search) = 0

C20_Witness ==
    /\ single_real
    /\ the_edit.type = "replace_all"
    /\ Len(the_edit.search) = 2
    /\ count_occurrences(before, the_edit.search) = 2
    /\ the_edit.replace = <<"c">>
    /\ the_outcome.status = "ok"
    /\ after # before
    /\ count_occurrences(after, the_edit.search) = 0

(***************************************************************************)
(* indent.rs                                                               *)
(***************************************************************************)
Spaces(width) == [kind |-> "spaces", width |-> width]
Tabs == [kind |-> "tabs", width |-> 0]
Mixed == [kind |-> "mixed", width |-> 0]
Unknown == [kind |-> "unknown", width |-> 0]

repeat_char(c, n) == [i \in 1..n |-> c]

\* indent.matches(c).count() over the leading whitespace of the line
count_in_indent(line, c) ==
    Cardinality({i \in 1..leading_ws(line) : line[i] = c})

\* the closure of the (Spaces, Spaces) arm
convert_spaces_to_spaces(line, src_width, tgt_width) ==
    LET trimmed == trim_start(line)
        leading_spaces == Len(line) - Len(trimmed)
        indent_level == leading_spaces \div src_width
        remainder == leading_spaces % src_width
        new_spaces == (indent_level * tgt_width) + remainder
    IN IF leading_spaces = 0 THEN line
       ELSE repeat_char(SP, new_spaces) \o trimmed

\* the closure of the (Spaces, Tabs) arm
convert_spaces_to_tabs(line, src_width) ==
    LET trimmed == trim_start(line)
        leading_spaces == Len(line) - Len(trimmed)
        tabs == leading_spaces \div src_width
        remainder == leading_spaces % src_width
    IN IF leading_spaces = 0 THEN line
       ELSE repeat_char(TAB, tabs) \o repeat_char(SP, remainder) \o trimmed

\* the closure of the (Tabs, Spaces) arm
convert_tabs_to_spaces(line, tgt_width) ==
    LET total_spaces == (count_in_indent(line, TAB) * tgt_width)
                            + count_in_indent(line, SP)
    IN repeat_char(SP, total_spaces) \o trim_start(line)

convert_line(line, source_style, target_style) ==
    IF source_style.kind = "spaces" /\ target_style.kind = "spaces"
    THEN convert_spaces_to_spaces(line, source_style.width, target_style.width)
    ELSE IF source_style.kind = "spaces"
    THEN convert_spaces_to_tabs(line, source_style.width)
    ELSE convert_tabs_to_spaces(line, target_style.width)

convert_to_target_style(replacement, source_style, target_style) ==
    IF source_style = target_style THEN replacement
    ELSE IF \/ source_style.kind = "spaces" /\ target_style.kind \in {"spaces", "tabs"}
            \/ source_style.kind = "tabs" /\ target_style.kind = "spaces"
    THEN LET ls == lines(replacement)
         IN join([i \in 1..Len(ls) |-> convert_line(ls[i], source_style, target_style)],
                 <<NL>>)
    ELSE replacement

(***************************************************************************)
(* Calls of library functions: the orchestrators are idle.                 *)
(***************************************************************************)
LibraryInit(calls) ==
    /\ call \in calls
    /\ edits = <<>>
    /\ dry_run = FALSE
    /\ partial = FALSE
    /\ fs = [files |-> [f \in Files |-> Missing], d_exists |-> FALSE]
    /\ fs0 = fs
    /\ pc = "library"
    /\ index = 0
    /\ transaction = begin
    /\ backups = <<>>
    /\ pending = {}
    /\ group = ""
    /\ outcomes = <<>>
    /\ result = new_result
    /\ trace = <<>>
    /\ rolled_back = FALSE

run_vars == <<edits, dry_run, partial, fs, fs0, pc, index, transaction, backups,
              pending, group, outcomes, result, trace, rolled_back>>

(***************************************************************************)
(* Conversion between two space widths and back, on texts whose lines are  *)
(* indented by whole levels of the source width.                           *)
(***************************************************************************)
\* deepest indentation level of a generated line
MaxLevel == 2

\* the space widths of the claim
Widths == 1..8

\* lines indented by 0..MaxLevel levels of the width: code, and whitespace only
AlignedLines(width) ==
    {repeat_char(SP, k * width) \o body : k \in 0..MaxLevel, body \in {<<"x">>, <<>>}}

AlignedTexts(width) ==
    {render(ls, <<NL>>, final) :
        ls \in UNION {[1..n -> AlignedLines(width)] : n \in 1..MaxLines},
        final \in BOOLEAN}

RoundTripCalls ==
    UNION {{[text |-> t, a |-> a, b |-> b, there |-> None, back |-> None] :
                t \in AlignedTexts(a), b \in Widths} : a \in Widths}

RoundTripInit == LibraryInit(RoundTripCalls)

\* convert(text, A, B)
ConvertThere ==
    /\ ~call.there.some
    /\ call' = [call EXCEPT !.there =
                    Some(convert_to_target_style(call.text, Spaces(call.a), Spaces(call.b)))]
    /\ UNCHANGED run_vars

\* convert(_, B, A) on the result
ConvertBack ==
    /\ call.there.some
    /\ ~call.back.some
    /\ call' = [call EXCEPT !.back =
                    Some(convert_to_target_style(call.there.val, Spaces(call.b), Spaces(call.a)))]
    /\ UNCHANGED run_vars

RoundTripNext == ConvertThere \/ ConvertBack

RoundTripSpec == RoundTripInit /\ [][RoundTripNext]_vars

(***************************************************************************)
(* C21: for all space widths a, b in 1..8 and every text whose lines each  *)
(* have a number of leading spaces that is a multiple of a, texts ending   *)
(* with a line break included, converting from Spaces(a) to Spaces(b) and  *)
(* back from Spaces(b) to Spaces(a) gives the text again.                  *)
(***************************************************************************)
C21_ConvertRoundTrips ==
    call.back.some => call.back.val = call.text

(***************************************************************************)
(* indent.rs: detection of the indentation style                           *)
(***************************************************************************)
\* the file extensions of the model: one per default, and one in upper case
Extensions == {"go", "GO", "js", "txt"}

\* str::to_lowercase on the extensions of the model
to_lowercase(extension) == IF extension = "GO" THEN "go" ELSE extension

language_default_indent(extension) ==
    LET e == to_lowercase(extension)
    IN IF e \in {"go", "makefile", "mk"} THEN Tabs
       ELSE IF e \in {"js", "jsx", "ts", "tsx", "mjs", "cjs",
                      "html", "htm", "css", "scss", "sass", "less",
                      "json", "yaml", "yml", "rb", "vue", "svelte"}
       THEN Spaces(2)
       ELSE Spaces(4)

RECURSIVE gcd(_, _)
gcd(a, b) == IF b = 0 THEN a ELSE gcd(b, a % b)

RECURSIVE gcd_of(_, _)
gcd_of(acc, ws) == IF Len(ws) = 0 THEN acc ELSE gcd_of(gcd(acc, ws[1]), Tail(ws))

\* Iterator::take
take(seq, n) == SubSeq(seq, 1, IF Len(seq) < n THEN Len(seq) ELSE n)

\* widths: the (width, count) pairs, most common first
find_indent_base(widths) ==
    LET top == take(widths, 5)
        positive(w) == w > 0
        top_widths == SelectSeq([k \in 1..Len(top) |-> top[k][1]], positive)
        divisor == gcd_of(top_widths[1], Tail(top_widths))
    IN IF Len(top_widths) = 0 THEN 4
       ELSE IF divisor = 1 \/ divisor = 3 \/ divisor > 8 THEN top_widths[1]
       ELSE divisor

\* the choice among base indent, most common width and language default,
\* with the upper limit of the width forgotten
width_style_unchecked(widths, file_ext) ==
    IF find_indent_base(widths) > 0 THEN Spaces(find_indent_base(widths))
    ELSE language_default_indent(file_ext)

\* detect_indent_style from `if let Some((most_common_width, _))` on:
\* the choice among base indent, most common width and language default
width_style(widths, file_ext) ==
    LET most_common_width == widths[1][1]
        base_indent == find_indent_base(widths)
    IN IF base_indent > 0 /\ base_indent <= 8 THEN Spaces(base_indent)
       ELSE IF most_common_width > 0 /\ most_common_width <= 8
       THEN Spaces(most_common_width)
       ELSE language_default_indent(file_ext)

\* space_counts.into_iter().collect() followed by the stable sort by count,
\* largest first: the map is a HashMap, so widths that occur equally often
\* come in whatever order the hasher's seed gives them
sorted_widths(space_counts) ==
    {[k \in 1..Len(o) |-> <<o[k], space_counts[o[k]]>>] :
        o \in {p \in orders(DOMAIN space_counts) :
                  \A x, y \in 1..Len(p) :
                      x < y => space_counts[p[x]] >= space_counts[p[y]]}}

\* every style the function can return for the arguments
detect_indent_style(content, file_ext) ==
    LET ls == take(lines(content), 100)
        indented == {k \in 1..Len(ls) : Len(trim(ls[k])) > 0 /\ leading_ws(ls[k]) > 0}
        tabbed == {k \in indented : ls[k][1] = TAB}
        spaced == {k \in indented : ls[k][1] = SP}
        indented_lines == Cardinality(indented)
        tab_lines == Cardinality(tabbed)
        space_lines == Cardinality(spaced)
        space_counts == [w \in {leading_ws(ls[k]) : k \in spaced} |->
                            Cardinality({k \in spaced : leading_ws(ls[k]) = w})]
    IN IF Len(ls) = 0 \/ indented_lines = 0 THEN {language_default_indent(file_ext)}
       ELSE IF tab_lines > space_lines
       THEN IF space_lines > 0 /\ space_lines * 5 > indented_lines
            THEN {Mixed} ELSE {Tabs}
       ELSE IF space_lines = 0 THEN {language_default_indent(file_ext)}
       ELSE {width_style(widths, file_ext) : widths \in sorted_widths(space_counts)}

(***************************************************************************)
(* Two evaluations of detect_indent_style on the same arguments.           *)
(***************************************************************************)
\* longest generated text of the detection, in lines
MaxDetectLines == 3

\* leading-space widths of the generated lines
DetectWidths == {2, 3, 4, 6, 9, 12, 18}

DetectLines ==
    {repeat_char(SP, w) \o <<"x">> : w \in DetectWidths}
    \cup {<<"x">>, <<TAB, "x">>, <<SP, SP>>}

\* one line per width, narrowest first
RECURSIVE one_line_each(_)
one_line_each(ws) ==
    IF ws = {} THEN <<>>
    ELSE LET w == CHOOSE v \in ws : \A u \in ws : v <= u
         IN <<repeat_char(SP, w) \o <<"x">>>> \o one_line_each(ws \ {w})

\* short texts of any lines, and texts with six distinct widths
DetectContents ==
    {render(ls, <<NL>>, TRUE) :
        ls \in UNION {[1..n -> DetectLines] : n \in 0..MaxDetectLines}}
    \cup {render(one_line_each(ws), <<NL>>, TRUE) :
            ws \in {v \in SUBSET DetectWidths : Cardinality(v) = 6}}

DetectCalls ==
    {[content |-> c, file_ext |-> e, first |-> None, second |-> None] :
        c \in DetectContents, e \in Extensions}

DetectInit == LibraryInit(DetectCalls)

Detect ==
    /\ ~call.first.some
    /\ \E style \in detect_indent_style(call.content, call.file_ext) :
          call' = [call EXCEPT !.first = Some(style)]
    /\ UNCHANGED run_vars

DetectAgain ==
    /\ call.first.some
    /\ ~call.second.some
    /\ \E style \in detect_indent_style(call.content, call.file_ext) :
          call' = [call EXCEPT !.second = Some(style)]
    /\ UNCHANGED run_vars

DetectNext == Detect \/ DetectAgain

DetectSpec == DetectInit /\ [][DetectNext]_vars

\* the leading-space widths of the non-blank lines that start with a space
space_widths(content) ==
    {leading_ws(l) : l \in {m \in {lines(content)[k] : k \in 1..Len(lines(content))} :
                                Len(trim(m)) > 0 /\ Len(m) > 0 /\ m[1] = SP}}

(***************************************************************************)
(* C22: for every content and file extension detect_indent_style returns   *)
(* Tabs, Mixed, or Spaces(w) with 1 <= w <= 8; a candidate width outside   *)
(* 1..8 is never returned: the language default of the extension is        *)
(* returned instead.                                                       *)
(***************************************************************************)
C22_DetectedWidthInRange ==
    call.first.some =>
        /\ \/ call.first.val \in {Tabs, Mixed}
           \/ \E w \in 1..8 : call.first.val = Spaces(w)
        /\ (/\ Cardinality(space_widths(call.content)) = 1
            /\ \A w \in space_widths(call.content) : w > 8
            /\ call.first.val.kind = "spaces") =>
              call.first.val = language_default_indent(call.file_ext)

C22_Witness ==
    /\ call.first.some
    /\ call.content = repeat_char(SP, 9) \o <<"x", NL>>
    /\ call.file_ext = "js"
    /\ call.first.val = Spaces(2)

(***************************************************************************)
(* C30: detect_indent_style is deterministic: two evaluations on the same  *)
(* content and file extension return the same style, also when several     *)
(* leading-space widths occur equally often or more than five distinct     *)
(* widths are present.                                                     *)
(***************************************************************************)
C30_DetectIsDeterministic ==
    call.second.some => call.second.val = call.first.val

(***************************************************************************)
(* Searches and anchors around the preview limit of the not-found errors.  *)
(***************************************************************************)
\* searches and anchors that do not occur in the file: short, with a
\* two-byte character, exactly at the limit, one byte over it, and over it
\* with a two-byte character across or right after byte PreviewLimit - 3
LongTexts ==
    { <<"q">>,
      <<E2>>,
      repeat_char("q", PreviewLimit),
      repeat_char("q", PreviewLimit + 1),
      repeat_char("q", PreviewLimit - 4) \o <<E2>> \o repeat_char("q", 3),
      repeat_char("q", PreviewLimit - 3) \o <<E2>> \o repeat_char("q", 2) }

PreviewOps ==
    {Edit_Replace("a", t, Z) : t \in LongTexts \cup {<<"x">>}}
    \cup {Edit_ReplaceAll("a", t, Z) : t \in LongTexts \cup {<<"x">>}}
    \cup {Edit_InsertAfter("a", t, Z) : t \in LongTexts \cup {<<"x">>}}
    \cup {Edit_InsertBefore("a", t, Z) : t \in LongTexts \cup {<<"x">>}}

PreviewInit == InitWith(OnceOrTwice(PreviewOps), InitialFs \cup TextFs({X}))

PreviewSpec == PreviewInit /\ [][Next]_vars

(***************************************************************************)
(* C23: every failure of a single edit is returned as a structured Error   *)
(* outcome and never aborts the run with a process-level failure: for      *)
(* every batch and on-disk state apply_edits_with_options returns an       *)
(* ApplyResult, also when a search or anchor is longer than the 200-byte   *)
(* preview limit or contains multi-byte characters.                        *)
(***************************************************************************)
C23_NoProcessLevelFailure ==
    /\ pc # "panicked"
    /\ returned =>
          \A k \in 1..Len(result.edits) :
              result.edits[k].status \in {"ok", "warning", "error"}

(***************************************************************************)
(* InsertAfter and InsertBefore on every short text.                       *)
(***************************************************************************)
\* anchors: inside a line, never present, a whole two-letter line
Anchors == { <<"x">>, <<"q">>, <<"x", "x">> }

\* inserted content: one line, two lines, one line with its line break
Insertions == { <<"z">>, <<"z", NL, "z">>, <<"z", NL>> }

AnchorOps ==
    {Edit_InsertAfter("a", an, ins) : an \in Anchors, ins \in Insertions}
    \cup {Edit_InsertBefore("a", an, ins) : an \in Anchors, ins \in Insertions}

AnchorInit == InitWith(OnceOrTwice(AnchorOps), TextFs(ShortContents))

AnchorSpec == AnchorInit /\ [][Next]_vars

(***************************************************************************)
(* C24: InsertAfter (InsertBefore) with a non-empty anchor is whole-line:  *)
(* when some line contains the anchor, the resulting lines are the         *)
(* original lines with the content's lines inserted right after (before)   *)
(* the first line containing the anchor, no original line split, altered,  *)
(* dropped or reordered, and the file ends with a line break exactly when  *)
(* it did before; when no line contains the anchor the outcome is          *)
(* anchor_not_found and the file is unchanged.                             *)
(***************************************************************************)
C24_InsertIsWholeLine ==
    LET old == lines(before)
        N == Len(old)
        k == find_line_with_anchor(before, the_edit.anchor)
        new == lines(the_edit.content)
    IN (/\ single_real
        /\ the_edit.type \in {"insert_after", "insert_before"}
        /\ the_edit.anchor # <<>>) =>
          IF k # 0
          THEN /\ the_outcome.status = "ok"
               /\ lines(after) =
                    IF the_edit.type = "insert_after"
                    THEN SubSeq(old, 1, k) \o new \o SubSeq(old, k + 1, N)
                    ELSE SubSeq(old, 1, k - 1) \o new \o SubSeq(old, k, N)
               /\ ends_with(after, NL) <=> ends_with(before, NL)
          ELSE /\ the_outcome.status = "error"
               /\ the_outcome.error = "anchor_not_found"
               /\ fs = fs0

(***************************************************************************)
(* DeleteLines on texts with runs of blank lines.                          *)
(***************************************************************************)
\* longest generated file of the blank-line specification, in characters
MaxBlank == 7

BlankContents == texts({"x", NL}, MaxBlank)

\* line ranges with start <= end, inside the file and beyond its end
RangeOps ==
    {Edit_DeleteLines("a", r[1], r[2]) :
        r \in {q \in (1..(MaxBlank + 1)) \X (1..(MaxBlank + 1)) : q[1] <= q[2]}}

RangeInit == InitWith(OnceOrTwice(RangeOps), TextFs(BlankContents))

RangeSpec == RangeInit /\ [][Next]_vars

\* the lines with every run of three or more empty lines cut down to two
RECURSIVE two_blank_at_most(_)
two_blank_at_most(ls) ==
    IF Len(ls) < 3 THEN ls
    ELSE IF ls[1] = <<>> /\ ls[2] = <<>> /\ ls[3] = <<>>
    THEN two_blank_at_most(Tail(ls))
    ELSE <<ls[1]>> \o two_blank_at_most(Tail(ls))

(***************************************************************************)
(* C25: delete_line_range(content, start, end) with 1 <= start <= end <= N *)
(* returns the original lines without lines start..end, except that every  *)
(* run of 3 or more consecutive blank lines in the result is collapsed to  *)
(* exactly 2; runs of 1 or 2 blank lines are preserved wherever they are,  *)
(* and the result ends with a line break only if the input did.            *)
(***************************************************************************)
C25_DeleteRangeCollapsesLongBlankRuns ==
    LET old == lines(before)
        N == Len(old)
        st == the_edit.start_line
        en == the_edit.end_line
    IN (/\ single_real
        /\ the_edit.type = "delete_lines"
        /\ 1 <= st /\ st <= en /\ en <= N) =>
          /\ the_outcome.status = "ok"
          /\ after = delete_line_range(before, st, en)
          /\ lines(after) = two_blank_at_most(SubSeq(old, 1, st - 1) \o SubSeq(old, en + 1, N))
          /\ ends_with(after, NL) => ends_with(before, NL)

(***************************************************************************)
(* strsim::normalized_levenshtein and matcher.rs find_closest_matches.     *)
(* A similarity or confidence is the fraction num / den.                   *)
(***************************************************************************)
Fraction(num, den) == [num |-> num, den |-> den]

\* a >= b on fractions with positive denominators
at_least(a, b) == a.num * b.den >= b.num * a.den

min3(a, b, c) == IF a <= b /\ a <= c THEN a ELSE IF b <= c THEN b ELSE c

\* one row of the edit-distance table: row holds the entries filled so far
RECURSIVE levenshtein_row(_, _, _, _)
levenshtein_row(prev, ch, b, row) ==
    IF Len(row) = Len(b) + 1 THEN row
    ELSE LET j == Len(row)
         IN levenshtein_row(prev, ch, b,
                Append(row, min3(prev[j + 1] + 1, row[j] + 1,
                                 prev[j] + (IF ch = b[j] THEN 0 ELSE 1))))

RECURSIVE levenshtein_from(_, _, _, _)
levenshtein_from(a, b, k, prev) ==
    IF k > Len(a) THEN prev[Len(b) + 1]
    ELSE levenshtein_from(a, b, k + 1, levenshtein_row(prev, a[k], b, <<k>>))

\* the edit distance over characters
levenshtein(a, b) == levenshtein_from(a, b, 1, [j \in 1..(Len(b) + 1) |-> j - 1])

normalized_levenshtein(a, b) ==
    LET longest == IF Len(a) > Len(b) THEN Len(a) ELSE Len(b)
    IN IF Len(a) = 0 /\ Len(b) = 0 THEN Fraction(1, 1)
       ELSE Fraction(longest - levenshtein(a, b), longest)

\* the stable sort by similarity, largest first
RECURSIVE sort_by_similarity(_)
sort_by_similarity(ms) ==
    IF Len(ms) = 0 THEN <<>>
    ELSE LET best == CHOOSE k \in 1..Len(ms) :
                        /\ \A j \in 1..Len(ms) : at_least(ms[k].similarity, ms[j].similarity)
                        /\ \A j \in 1..(k - 1) :
                              ~at_least(ms[j].similarity, ms[k].similarity)
         IN <<ms[best]>> \o sort_by_similarity(SubSeq(ms, 1, best - 1)
                                                   \o SubSeq(ms, best + 1, Len(ms)))

find_closest_matches(content, search, threshold, max_results) ==
    LET search_lines == lines(search)
        content_lines == lines(content)
        n == Len(content_lines)
        window_size == Len(search_lines)
        end_of(start) == IF start + window_size < n THEN start + window_size ELSE n
        window(start) == join(SubSeq(content_lines, start + 1, end_of(start)), <<NL>>)
        match(start) ==
            [line |-> start + 1,
             similarity |-> normalized_levenshtein(search, window(start)),
             content |-> window(start),
             context_before |-> SubSeq(content_lines,
                                       (IF start > 2 THEN start - 2 ELSE 0) + 1, start),
             context_after |-> SubSeq(content_lines, end_of(start) + 1,
                                      IF end_of(start) + 2 < n THEN end_of(start) + 2 ELSE n)]
        all == [k \in 1..n |-> match(k - 1)]
        above(m) == at_least(m.similarity, threshold)
    IN IF window_size = 0 \/ n = 0 THEN <<>>
       ELSE take(sort_by_similarity(SelectSeq(all, above)), max_results)

(***************************************************************************)
(* autocorrect.rs.  The reason text of a correction is left out.           *)
(***************************************************************************)
AutoCorrection(search, suggested, confidence, type) ==
    [original_search |-> search, suggested_search |-> suggested,
     confidence |-> confidence, correction_type |-> type]

\* the call does not return: a panic unwinds through it
Died == [some |-> FALSE, val |-> <<"panic">>]

try_indentation_correction(content, search, file_ext) ==
    LET norm_content == normalize_indentation(content)
        norm_search == normalize_indentation(search)
        search_lines == lines(norm_search)
        content_lines == lines(content)
        m == Len(search_lines)
        window_matches(start_idx) ==
            \A k \in 1..m : trim(content_lines[start_idx + k]) = search_lines[k]
        hits == {start_idx \in 0..(Len(content_lines) - m) : window_matches(start_idx)}
        first == CHOOSE h \in hits : \A g \in hits : h <= g
    IN IF ~contains(norm_content, norm_search) \/ m = 0 \/ hits = {} THEN None
       ELSE Some(AutoCorrection(search,
                    join(SubSeq(content_lines, first + 1, first + m), <<NL>>),
                    Fraction(95, 100), "IndentationFix"))

try_trailing_whitespace_correction(content, search) ==
    LET ls == lines(search)
        trimmed_search == join([k \in 1..Len(ls) |-> trim_end(ls[k])], <<NL>>)
    IN IF trimmed_search = search THEN None
       ELSE IF contains(content, trimmed_search)
       THEN Some(AutoCorrection(search, trimmed_search, Fraction(90, 100),
                                "TrailingWhitespace"))
       ELSE None

try_line_ending_correction(content, search) ==
    LET lf_search == replace_all(search, <<CR, NL>>, <<NL>>)
        crlf_search == replace_all(search, <<NL>>, <<CR, NL>>)
    IN IF contains(search, <<CR, NL>>) /\ ~contains(content, <<CR, NL>>)
          /\ contains(content, lf_search)
       THEN Some(AutoCorrection(search, lf_search, Fraction(95, 100), "LineEndingFix"))
       ELSE IF contains(content, <<CR, NL>>) /\ ~contains(search, <<CR, NL>>)
               /\ contains(content, crlf_search)
       THEN Some(AutoCorrection(search, crlf_search, Fraction(95, 100), "LineEndingFix"))
       ELSE None

try_fuzzy_match_correction(search, closest_matches) ==
    IF Len(closest_matches) = 0 THEN None
    ELSE IF at_least(closest_matches[1].similarity, Fraction(90, 100))
    THEN Some(AutoCorrection(search, closest_matches[1].content,
                             closest_matches[1].similarity, "FuzzyMatch"))
    ELSE None

\* String::remove(i) on a copy of the search: the character that starts at
\* byte i (0-based) is taken out; i must be a character boundary
without_char_at(search, i) ==
    LET k == CHOOSE c \in 1..Len(search) : len_bytes(SubSeq(search, 1, c - 1)) = i
    IN SubSeq(search, 1, k - 1) \o SubSeq(search, k + 1, Len(search))

\* the loop over the byte indices: the first index whose deletion gives a
\* text of the content ends it with a correction, an index inside a
\* character ends it with the panic of String::remove
try_typo_correction(content, search) ==
    LET n == len_bytes(search)
        stops == {i \in 0..(n - 1) :
                     IF is_char_boundary(search, i)
                     THEN contains(content, without_char_at(search, i))
                     ELSE TRUE}
        first == CHOOSE i \in stops : \A j \in stops : i <= j
    IN IF n > 200 \/ n < 5 \/ stops = {} THEN None
       ELSE IF ~is_char_boundary(search, first) THEN Died
       ELSE Some(AutoCorrection(search, without_char_at(search, first),
                                Fraction(85, 100), "TypoFix"))

suggest_correction(content, search, closest_matches, file_ext) ==
    IF try_indentation_correction(content, search, file_ext).some
    THEN try_indentation_correction(content, search, file_ext)
    ELSE IF try_trailing_whitespace_correction(content, search).some
    THEN try_trailing_whitespace_correction(content, search)
    ELSE IF try_line_ending_correction(content, search).some
    THEN try_line_ending_correction(content, search)
    ELSE IF try_fuzzy_match_correction(search, closest_matches).some
    THEN try_fuzzy_match_correction(search, closest_matches)
    ELSE try_typo_correction(content, search)

\* apply_auto_correction after suggest_correction has returned
threshold_filter(correction, confidence_threshold) ==
    IF correction.some /\ at_least(correction.val.confidence, confidence_threshold)
    THEN correction
    ELSE IF correction = Died THEN Died
    ELSE None

apply_auto_correction(content, search, file_ext, confidence_threshold) ==
    threshold_filter(
        suggest_correction(content, search,
                           find_closest_matches(content, search, Fraction(5, 10), 3),
                           file_ext),
        confidence_threshold)

(***************************************************************************)
(* Calls of suggest_correction and apply_auto_correction.  A call record   *)
(* holds the arguments; suggestion and applied are None before the call,   *)
(* Some(r) once the call has returned r, and Died when it panicked.        *)
(***************************************************************************)
CorrectionContents ==
    {
      <<SP, SP, "a", "b", "c", "d", "e", NL, "x", "y", NL>>,   \* an indented line
      <<"x", "a", "b", "c", "d", "e", NL, "f", "g", NL>>,   \* the letters inside a longer line
      <<"x", "a", "b", SP, NL, "c", "d", NL>>,   \* line feeds, a trailing space inside
      <<"x", "a", "b", CR, NL, "c", "d", NL>>,   \* carriage return and line feed
      <<"a", "b", "c", "d", "e", "f", "g", "h", "i", "j", NL, "x", "y", NL>> }   \* a line of ten letters

CorrectionSearches ==
    {
      <<"a", "b", "c", "d", "e">>,   \* found after trimming; one deletion gives bcde
      <<"a", "b", "c", "d", "e", SP, SP>>,   \* trailing spaces
      <<"a", "b", SP, CR, NL, "c", "d">>,   \* carriage return in the search only
      <<"a", "b", NL, "c", "d">>,   \* line feed in the search only
      <<"a", "b", "c", "d", "e", "f", "g", "h", "i", "X">>,   \* one letter of ten differs
      <<"a", "b", "c", "d", "e", "q">>,   \* one letter too many
      <<"q", "q", "q", "q", "q">>,   \* nothing applies
      <<"q", "q", "q", E2>>,   \* five bytes, the last character has two
      <<"a", "b">> }   \* shorter than five bytes

Thresholds == {Fraction(85, 100), Fraction(90, 100), Fraction(95, 100), Fraction(1, 1)}

CorrectionCalls ==
    UNION {{[content |-> c, search |-> s, file_ext |-> "js", closest_matches |-> m,
             confidence_threshold |-> th, suggestion |-> None, applied |-> None] :
               m \in {<<>>, find_closest_matches(c, s, Fraction(5, 10), 3)},
               th \in Thresholds} :
           <<c, s>> \in CorrectionContents \X CorrectionSearches}

CorrectionInit == LibraryInit(CorrectionCalls)

returned_or_died(r) == IF r = Died THEN Died ELSE Some(r)

Suggest ==
    /\ call.suggestion = None
    /\ call' = [call EXCEPT !.suggestion =
                   returned_or_died(suggest_correction(call.content, call.search,
                                        call.closest_matches, call.file_ext))]
    /\ UNCHANGED run_vars

AutoCorrect ==
    /\ call.applied = None
    /\ call' = [call EXCEPT !.applied =
                   returned_or_died(apply_auto_correction(call.content, call.search,
                                        call.file_ext, call.confidence_threshold))]
    /\ UNCHANGED run_vars

CorrectionNext == Suggest \/ AutoCorrect

CorrectionSpec == CorrectionInit /\ [][CorrectionNext]_vars

\* the results of the five heuristics in the order indentation, trailing
\* whitespace, line ending, fuzzy match, single deletion
heuristics(content, search, closest_matches, file_ext) ==
    << try_indentation_correction(content, search, file_ext),
       try_trailing_whitespace_correction(content, search),
       try_line_ending_correction(content, search),
       try_fuzzy_match_correction(search, closest_matches),
       try_typo_correction(content, search) >>

\* r is the first heuristic of hs that applies, with the confidence of its
\* place, or None when no heuristic applies
first_that_applies(r, hs, closest_matches) ==
    LET applying == {k \in 1..5 : hs[k].some}
        first == CHOOSE k \in applying : \A j \in applying : k <= j
        confidence == << Fraction(95, 100), Fraction(90, 100), Fraction(95, 100),
                         IF Len(closest_matches) > 0 THEN closest_matches[1].similarity
                         ELSE Fraction(0, 1),
                         Fraction(85, 100) >>
    IN IF applying = {} THEN r = None
       ELSE /\ r = hs[first]
            /\ r.val.confidence = confidence[first]
            /\ first = 4 => at_least(r.val.confidence, Fraction(90, 100))

(***************************************************************************)
(* C26: suggest_correction returns the first heuristic that applies in the *)
(* order indentation (0.95), trailing whitespace (0.90), line ending       *)
(* (0.95), best fuzzy candidate of similarity at least 0.90 (confidence =  *)
(* similarity), single deletion (0.85), and None when none applies;        *)
(* apply_auto_correction returns the suggestion when its confidence is at  *)
(* least the caller's threshold and None otherwise.  Both calls return.    *)
(***************************************************************************)
C26_FirstHeuristicAboveThreshold ==
    /\ call.suggestion # None =>
          /\ call.suggestion.some
          /\ first_that_applies(call.suggestion.val,
                 heuristics(call.content, call.search, call.closest_matches,
                            call.file_ext),
                 call.closest_matches)
    /\ call.applied # None =>
          /\ call.applied.some
          /\ \E m \in {find_closest_matches(call.content, call.search,
                                            Fraction(5, 10), 3)} :
             \E s \in {suggest_correction(call.content, call.search, m,
                                          call.file_ext)} :
                call.applied.val =
                    IF s.some /\ at_least(s.val.confidence, call.confidence_threshold)
                    THEN s ELSE None

(***************************************************************************)
(* C27: when Replace succeeds through the normalized match, the span that  *)
(* is replaced is the first window of whole lines whose trimmed lines      *)
(* equal the trimmed lines of the search: it starts where the window's     *)
(* first line starts and ends where its last line ends, and the text       *)
(* before and after the window is in the new file as it was.               *)
(***************************************************************************)
C27_NormalizedSpanIsMatchedWindow ==
    (/\ single_real /\ the_edit.type = "replace"
     /\ the_outcome.status = "ok"
     /\ the_outcome.message = "Replaced with indentation adjustment") =>
        LET wins == windows_of(the_edit.search, before)
            st == CHOOSE w \in wins : \A o \in wins : w <= o
            n == Len(lines(the_edit.search))
            head == SubSeq(before, 1, line_begin(before, st) - 1)
            tail == SubSeq(before, line_end(before, st + n - 1) + 1, Len(before))
        IN /\ wins # {}
           /\ Len(after) >= Len(head) + Len(tail)
           /\ SubSeq(after, 1, Len(head)) = head
           /\ SubSeq(after, Len(after) - Len(tail) + 1, Len(after)) = tail

(***************************************************************************)
(* Runs with a Create whose write fails after the parent directory has     *)
(* been made: the path "d/.." while d is missing.                          *)
(***************************************************************************)
CreateOps ==
    { Edit_Create("d/..", W),
      Edit_Create("d/b", W),
      Edit_DeleteFile("d/.."),
      Edit_Replace("a", <<"x">>, <<"w">>),
      Edit_Replace("a", <<"q">>, <<"w">>),
      Edit_DeleteLines("d/b", 1, 1) }

CreateInit ==
    InitWith({<<e>> : e \in CreateOps} \cup {<<e, f>> : e, f \in CreateOps}, InitialFs)

CreateSpec == CreateInit /\ [][Next]_vars

\* the edit of (0-based) index i has an outcome that is not an error
succeeded(i) ==
    \E k \in 1..Len(result.edits) :
        result.edits[k].index = i /\ is_success(result.edits[k])

\* the working directory after applying, in input order from edit i + 1 on,
\* the edits that succeeded in the run
RECURSIVE only_successful(_, _)
only_successful(dir, i) ==
    IF i = Len(edits) THEN dir
    ELSE only_successful(IF succeeded(i) THEN apply(dir, edits[i + 1], i).fs ELSE dir,
                         i + 1)

(***************************************************************************)
(* C28: an edit whose outcome is an error leaves the working directory as  *)
(* it was, so after a run in partial mode the working directory is the one *)
(* obtained by applying only the edits that succeeded, in input order.     *)
(***************************************************************************)
C28_FailedEditChangesNothing ==
    (returned /\ ~dry_run /\ partial) => fs = only_successful(fs0, 0)

(***************************************************************************)
(* C29: the ApplyResult that is returned is consistent: applied is the     *)
(* number of ok and warning outcomes in edits, failed is the number of     *)
(* error outcomes, applied + failed is the length of edits, and success    *)
(* holds exactly when failed is 0.                                         *)
(***************************************************************************)
C29_CountersMatchOutcomes ==
    returned =>
        /\ result.applied = Cardinality({k \in 1..Len(result.edits) :
                                result.edits[k].status \in {"ok", "warning"}})
        /\ result.failed = Cardinality({k \in 1..Len(result.edits) :
                                result.edits[k].status = "error"})
        /\ result.applied + result.failed = Len(result.edits)
        /\ result.success <=> result.failed = 0

\* a partial run on disk that returned successes and failures
C29_Witness ==
    /\ returned /\ partial /\ ~dry_run
    /\ result.applied > 0
    /\ result.failed > 0
    /\ ~result.success

=============================================================================
